---- MODULE Spec2Model ----
(***************************************************************************)
(* Submission ledger of planilla-web: POST /api/planillas and the routes   *)
(* that share its tables (usuarios, counters, historial), in the server    *)
(* variants kept in the repository.  Money is counted in cents; a text is  *)
(* a sequence of one-character strings.                                    *)
(***************************************************************************)
EXTENDS Integers, Sequences, FiniteSets, TLC

\* ------------------------------------------------------------------------
\* Bounds of the model
\* ------------------------------------------------------------------------
\* Number of POST /api/planillas requests of one behaviour.
NReq == 2

\* Number of requests of a behaviour that takes them one at a time.
NSeq == 3

\* ------------------------------------------------------------------------
\* Texts and numbers
\* ------------------------------------------------------------------------
Digits == {"0", "1", "2", "3", "4", "5", "6", "7", "8", "9"}

DigitVal(c) ==
  CASE c = "0" -> 0 [] c = "1" -> 1 [] c = "2" -> 2 [] c = "3" -> 3
    [] c = "4" -> 4 [] c = "5" -> 5 [] c = "6" -> 6 [] c = "7" -> 7
    [] c = "8" -> 8 [] c = "9" -> 9

\* JSON null / undefined of a request field.
Null == <<"null">>

\* The JavaScript NaN: it poisons sums and fails every comparison.
NaN == -99999999

Plus(a, b) == IF a = NaN \/ b = NaN THEN NaN ELSE a + b

Gt(a, b) == a # NaN /\ b # NaN /\ a > b

RECURSIVE TrimLeft(_)
TrimLeft(s) == IF s # <<>> /\ Head(s) = " " THEN TrimLeft(Tail(s)) ELSE s

RECURSIVE TrimRight(_)
TrimRight(s) ==
  IF s # <<>> /\ s[Len(s)] = " " THEN TrimRight(SubSeq(s, 1, Len(s) - 1)) ELSE s

\* String.prototype.trim
Trim(s) == TrimRight(TrimLeft(s))

\* First position >= i of s that holds no digit (Len(s) + 1 when none).
RECURSIVE DigitsEnd(_, _)
DigitsEnd(s, i) ==
  IF i <= Len(s) /\ s[i] \in Digits THEN DigitsEnd(s, i + 1) ELSE i

\* Value of the digits s[i..j-1].
RECURSIVE IntVal(_, _, _)
IntVal(s, i, j) ==
  IF j <= i THEN 0 ELSE 10 * IntVal(s, i, j - 1) + DigitVal(s[j - 1])

\* A decimal literal at the head of s: sign, digits, ".", digits.  ok says
\* whether one is there, end is the position after it, cents its value
\* rounded to two decimals on the third fractional digit.  Every amount of
\* the input sets has at most two fractional digits, where the binary64
\* arithmetic of the source is exact in cents.
DecimalPrefix(s) ==
  LET neg   == Len(s) >= 1 /\ s[1] = "-"
      p0    == IF neg THEN 2 ELSE 1
      p1    == DigitsEnd(s, p0)
      dot   == p1 <= Len(s) /\ s[p1] = "."
      p2    == IF dot THEN DigitsEnd(s, p1 + 1) ELSE p1
      nInt  == p1 - p0
      nFrac == IF dot THEN p2 - p1 - 1 ELSE 0
      d(k)  == IF k <= nFrac THEN DigitVal(s[p1 + k]) ELSE 0
      mag   == 100 * IntVal(s, p0, p1) + 10 * d(1) + d(2)
                 + (IF d(3) >= 5 THEN 1 ELSE 0)
  IN  [ok    |-> nInt + nFrac > 0,
       end   |-> p2,
       cents |-> IF neg THEN 0 - mag ELSE mag]

\* Number(text): the whole trimmed text must be a literal; "" is 0.
Number(s) ==
  LET t == Trim(s)
      p == DecimalPrefix(t)
  IN  IF t = <<>> THEN 0
      ELSE IF p.ok /\ p.end = Len(t) + 1 THEN p.cents
      ELSE NaN

\* parseFloat(text): the longest literal at the head of the text.
ParseFloat(s) ==
  LET p == DecimalPrefix(TrimLeft(s))
  IN  IF p.ok THEN p.cents ELSE NaN

\* pad(n, 5): String(n).padStart(5, '0')
RECURSIVE DigitsOf(_)
DigitsOf(n) ==
  LET c == CHOOSE x \in Digits : DigitVal(x) = n % 10
  IN  IF n < 10 THEN <<c>> ELSE Append(DigitsOf(n \div 10), c)

RECURSIVE PadStart(_, _)
PadStart(s, w) == IF Len(s) >= w THEN s ELSE PadStart(<<"0">> \o s, w)

pad(n) == PadStart(DigitsOf(n), 5)

\* normalizeFecha: DD/MM/YYYY becomes YYYY-MM-DD, any other text is kept.
AllDigits(s, i, j) == \A k \in i..j : s[k] \in Digits

normalizeFecha(f) ==
  LET s == IF f = Null THEN <<>> ELSE Trim(f)
  IN  IF Len(s) = 10 /\ AllDigits(s, 1, 2) /\ s[3] = "/" /\ AllDigits(s, 4, 5)
           /\ s[6] = "/" /\ AllDigits(s, 7, 10)
      THEN SubSeq(s, 7, 10) \o <<"-">> \o SubSeq(s, 4, 5) \o <<"-">> \o SubSeq(s, 1, 2)
      ELSE s

\* toMoney (v9): "S/ 45,00", "45.0", "", null -> a number with two decimals.
RECURSIVE CleanMoney(_)
CleanMoney(s) ==
  IF s = <<>> THEN <<>>
  ELSE LET c == IF Head(s) = "," THEN "." ELSE Head(s)
       IN  IF c \in Digits \cup {".", "-"}
           THEN <<c>> \o CleanMoney(Tail(s))
           ELSE CleanMoney(Tail(s))

\* More than one point: only the last one is kept.
RECURSIVE KeepLastDot(_)
KeepLastDot(s) ==
  IF s = <<>> THEN <<>>
  ELSE IF Head(s) = "." /\ \E k \in 1..Len(Tail(s)) : Tail(s)[k] = "."
       THEN KeepLastDot(Tail(s))
       ELSE <<Head(s)>> \o KeepLastDot(Tail(s))

toMoney(v) ==
  IF v = Null THEN 0
  ELSE LET n == ParseFloat(KeepLastDot(CleanMoney(Trim(v))))
       IN  IF n = NaN THEN 0 ELSE n

\* Number(it.monto || 0): null, "" and 0 are falsy.
NumberOr0(v) == IF v = Null \/ v = <<>> THEN 0 ELSE Number(v)

\* ------------------------------------------------------------------------
\* Program constants
\* ------------------------------------------------------------------------
\* The daily cap, in cents: Number(process.env.TOPE || 45).
TOPE == 4500

\* ------------------------------------------------------------------------
\* State
\* ------------------------------------------------------------------------
VARIABLES
  variant,    \* the server that runs: "v7" (server.cjs), "v8", "v9", ...
  usuarios,   \* table usuarios through v_usuarios_login: email -> row
  counters,   \* table counters: dni -> n, NoRow when the dni has no row
  historial,  \* committed rows of table historial, in insertion order
  req,        \* the POST /api/planillas requests: handler-local state
  lock,       \* row lock of counters: dni -> request holding it, 0 if free
  commits,    \* ledger of accepted submissions, in commit order (history)
  peek,       \* last answer of GET /api/counters/next
  planillas,  \* table planillas (headers), where the server keeps one
  detalle,    \* table planillas_items (rows of a header), likewise
  arg,        \* the arguments of the helper function under study; the
              \* requester of the last PUT or DELETE /api/historial; the
              \* answer of GET /api/acumulado before the last one
  out         \* what the helper returned; the last answer of those routes

vars == <<variant, usuarios, counters, historial, req, lock, commits, peek,
          planillas, detalle, arg, out>>

NoRow == -1

\* The seed rows of usuarios and one address that is in no row at first.
Admin == "admin@empresa.com"
Usuario == "usuario@empresa.com"
Otro == "otro@empresa.com"

Emails == {Admin, Usuario, Otro}

DniAdmin == "44895702"
DniUsuario == "44081950"
DniOtro == "40000000"

\* The dni of usuario@empresa.com in the seed of the planillas/planillas_items
\* server.
DniUsuarioP001 == "44801950"

DNIs == {DniAdmin, DniUsuario, DniOtro, DniUsuarioP001}

NoUser == [ex |-> FALSE, email |-> "", dni |-> "", activo |-> FALSE, rol |-> ""]

\* SQL_SEED: the two users a fresh database holds after bootstrap.
SeedUsuarios ==
  [e \in Emails |->
     IF e = Admin
     THEN [ex |-> TRUE, email |-> e, dni |-> DniAdmin, activo |-> TRUE, rol |-> "ADMIN_PADOVA"]
     ELSE IF e = Usuario
     THEN [ex |-> TRUE, email |-> e, dni |-> DniUsuario, activo |-> TRUE, rol |-> "USUARIO"]
     ELSE NoUser]

\* Semillas mínimas of the planillas/planillas_items server.
SeedUsuariosP001 == [SeedUsuarios EXCEPT ![Usuario].dni = DniUsuarioP001]

\* SELECT * FROM v_usuarios_login WHERE email ILIKE $1 LIMIT 1
SelectUsuario(email) ==
  IF email \in Emails /\ usuarios[email].ex THEN usuarios[email] ELSE NoUser

\* /^ADMIN/.test(u.rol)
IsAdminRol(rol) == rol \in {"ADMIN_PADOVA"}

ReqIdle ==
  [pc |-> "idle", who |-> "", dni |-> "", email |-> "", fecha |-> <<>>,
   items |-> <<>>, isAdmin |-> FALSE, u |-> NoUser, acc |-> 0, accAt |-> 0,
   total |-> 0, bumped |-> 0, cnt |-> NoRow, i |-> 0, pend |-> <<>>, res |-> "",
   dest |-> <<>>, inh |-> [d \in DNIs |-> NoRow],
   acq |-> 0, rel |-> 0, tx |-> FALSE, relTx |-> FALSE]

InFlight(r) == req[r].pc \notin {"idle", "done"}

\* The handler has answered: its transaction, if any, is over.
Answered(rec, res) ==
  [rec EXCEPT !.pc = "done", !.res = res, !.pend = <<>>, !.cnt = NoRow,
              !.inh = [d \in DNIs |-> NoRow]]

\* The pooled client of a handler: acq counts pool.connect(), rel the calls
\* of client.release(), tx says that the client is inside a transaction and
\* relTx that a release happened while it was.  A handler that took no
\* client runs its statements through the pool and none of this applies.
Connect(rec) == [rec EXCEPT !.acq = @ + 1]

\* client.query('BEGIN')
Begin(rec) == IF rec.acq = 0 THEN rec ELSE [rec EXCEPT !.tx = TRUE]

\* Faulty variant: COMMIT or ROLLBACK sent through the pool, to another client.
EndTxOnPool(rec) == rec

\* client.query('COMMIT') or client.query('ROLLBACK')
EndTx(rec) == IF rec.acq = 0 THEN rec ELSE [rec EXCEPT !.tx = FALSE]

\* client.release()
Release(rec) ==
  IF rec.acq = 0 THEN rec ELSE [rec EXCEPT !.rel = @ + 1, !.relTx = @ \/ rec.tx]

\* The row locks once the transaction of request r is over.
Unlocked(r) == [d \in DNIs |-> IF lock[d] = r THEN 0 ELSE lock[d]]

\* ------------------------------------------------------------------------
\* Sums over rows
\* ------------------------------------------------------------------------
RECURSIVE SumTotal(_)
SumTotal(rows) ==
  IF rows = <<>> THEN 0 ELSE Plus(Head(rows).total, SumTotal(Tail(rows)))

RECURSIVE SumSeq(_)
SumSeq(xs) == IF xs = <<>> THEN 0 ELSE Plus(Head(xs), SumSeq(Tail(xs)))

\* Faulty variant: the rows of the dni on every date.
RECURSIVE SelectRowsAnyDate(_, _, _)
SelectRowsAnyDate(rows, dni, fecha) ==
  IF rows = <<>> THEN <<>>
  ELSE IF Head(rows).dni = dni
       THEN <<Head(rows)>> \o SelectRowsAnyDate(Tail(rows), dni, fecha)
       ELSE SelectRowsAnyDate(Tail(rows), dni, fecha)

RECURSIVE SelectRows(_, _, _)
SelectRows(rows, dni, fecha) ==
  IF rows = <<>> THEN <<>>
  ELSE IF Head(rows).dni = dni /\ Head(rows).fecha = fecha
       THEN <<Head(rows)>> \o SelectRows(Tail(rows), dni, fecha)
       ELSE SelectRows(Tail(rows), dni, fecha)

\* SELECT COALESCE(SUM(total),0) FROM historial WHERE dni=$1 AND fecha=$2,
\* read by a transaction: the committed rows and its own pending ones.
SumAcumulado(r, dni, fecha) ==
  SumTotal(SelectRows(historial \o req[r].pend, dni, fecha))

\* ------------------------------------------------------------------------
\* POST /api/planillas of server.cjs (v7) and of its v8 and v9 editions
\* ------------------------------------------------------------------------
RECURSIVE MapNumberOr0(_)
MapNumberOr0(items) ==
  IF items = <<>> THEN <<>>
  ELSE <<NumberOr0(Head(items))>> \o MapNumberOr0(Tail(items))

\* Faulty variant: the items are cleaned but the rows without a positive amount stay.
RECURSIVE NormalizedSinFiltro(_)
NormalizedSinFiltro(items) ==
  IF items = <<>> THEN <<>>
  ELSE <<toMoney(Head(items))>> \o NormalizedSinFiltro(Tail(items))

\* v9: items.map(toMoney).filter(it => it.monto > 0)
RECURSIVE Normalized(_)
Normalized(items) ==
  IF items = <<>> THEN <<>>
  ELSE IF Gt(toMoney(Head(items)), 0)
       THEN <<toMoney(Head(items))>> \o Normalized(Tail(items))
       ELSE Normalized(Tail(items))

\* The monto of the rows the insert loop writes, one per element.
Montos(v, items) == IF v = "v9" THEN Normalized(items) ELSE MapNumberOr0(items)

\* totalItems: the rounded sum of the amounts.
TotalItems(v, items) == SumSeq(Montos(v, items))

\* authUser: the requester is the x-user-email header, else the body email;
\* he must exist and be active.  v8 and v9 mount no such middleware.
AuthOk(v, who, email) ==
  \/ v # "v7"
  \/ LET raw == IF who # "" THEN who ELSE email
     IN  raw # "" /\ SelectUsuario(raw).ex /\ SelectUsuario(raw).activo

AuthUser(who, email) == SelectUsuario(IF who # "" THEN who ELSE email)

\* Faulty variant: only the dni of the body is compared with the requester's.
ForbiddenSoloDni(v, in) ==
  /\ v = "v7"
  /\ ~IsAdminRol(AuthUser(in.who, in.email).rol)
  /\ in.dni # AuthUser(in.who, in.email).dni

\* Usuario normal solo puede guardar su propio DNI/email.
Forbidden(v, in) ==
  /\ v = "v7"
  /\ ~IsAdminRol(AuthUser(in.who, in.email).rol)
  /\ (in.dni # AuthUser(in.who, in.email).dni \/ in.email # AuthUser(in.who, in.email).email)

\* Payload inválido / No hay filas con monto > 0
BadPayload(v, in) ==
  \/ in.dni = "" \/ in.email = "" \/ in.fecha = <<>> \/ in.fecha = Null
  \/ IF v = "v9" THEN Normalized(in.items) = <<>> ELSE in.items = <<>>

\* The servers whose POST /api/planillas runs every statement through
\* pool.query, each committed at once: part_004 and the v3 of part_005.
Autocommit(v) == v \in {"p004", "v3"}

\* v9: items.map(it => ({... norm(it.destino || '') ...})) runs after the
\* first check of the body and before BEGIN; norm of a number throws.
MapThrows(v, in) ==
  /\ v = "v9"
  /\ in.dni # "" /\ in.email # "" /\ in.fecha # <<>> /\ in.fecha # Null
  /\ \E i \in 1..Len(in.dest) : in.dest[i] = "num"

\* Requests are taken in the order of their slots.
NextSlot(r) == req[r].pc = "idle" /\ (IF r = 1 THEN TRUE ELSE req[r - 1].pc # "idle")

\* The request arrives: middleware, pool.connect(), the checks before BEGIN.
Recv(r, Inputs) ==
  /\ NextSlot(r)
  /\ \E in \in Inputs :
       LET base == [ReqIdle EXCEPT !.who = in.who, !.dni = in.dni, !.email = in.email,
                                   !.fecha = in.fecha, !.items = in.items,
                                   !.dest = in.dest]
           held == IF Autocommit(variant) THEN base ELSE Connect(base)
       IN  req' = [req EXCEPT ![r] =
             IF ~AuthOk(variant, in.who, in.email)
               THEN Answered(base, "auth")
             ELSE IF Forbidden(variant, in)
               THEN Release(Answered(held, "forbidden"))
             ELSE IF MapThrows(variant, in)
               THEN Release(EndTx(Answered(held, "error")))
             ELSE IF BadPayload(variant, in)
               THEN Release(Answered(held, "payload"))
             ELSE [held EXCEPT !.pc = "tx",
                     !.isAdmin = variant = "v7" /\ IsAdminRol(AuthUser(in.who, in.email).rol)]]
  /\ UNCHANGED <<variant, arg, out, planillas, detalle, usuarios, counters, historial, lock, commits, peek>>

\* BEGIN; SELECT the worker by the body email; ROLLBACK when there is none.
SelectU(r) ==
  /\ req[r].pc = "tx"
  /\ LET u == SelectUsuario(req[r].email)
     IN  /\ req' = [req EXCEPT ![r] =
              IF ~u.ex THEN Release(EndTx(Begin(Answered(@, "nouser"))))
              ELSE Begin([@ EXCEPT !.pc = "sum", !.u = u])]
         /\ lock' = IF ~u.ex THEN Unlocked(r) ELSE lock
  /\ UNCHANGED <<variant, arg, out, planillas, detalle, usuarios, counters, historial, commits, peek>>

\* Totals of the accepted submissions of a worker and a day (ledger).
RECURSIVE LedgerSum(_, _, _)
LedgerSum(led, dni, fecha) ==
  IF led = <<>> THEN 0
  ELSE (IF Head(led).dni = dni /\ Head(led).fecha = fecha THEN Head(led).total ELSE 0)
         + LedgerSum(Tail(led), dni, fecha)

\* Faulty variant: the accumulated amount is left out of the comparison.
ExcedeTopeSoloActual(acc, total) == Gt(total, TOPE)

\* if (Number(acc) + totalItems > TOPE)
ExcedeTope(acc, total) == Gt(Plus(acc, total), TOPE)

\* The fecha a handler stores and filters by: server.cjs and its v4, v8 and
\* v9 editions normalise it, the other servers pass the text of the body.
FechaGuardada(v, f) == IF v \in {"v4", "v7", "v8", "v9"} THEN normalizeFecha(f) ELSE f

\* The n a submission gets when the dni has no counters row: VALUES ($1,1)
\* in server.cjs, v8 and v9; VALUES ($1,0) in part_004, v3 and v4.
FirstN(v) == IF v \in {"p004", "v3", "v4"} THEN 0 ELSE 1

\* Tope por día: the accumulated query, then the comparison with TOPE.
CapCheck(r) ==
  /\ req[r].pc = "sum"
  /\ LET fechaISO == FechaGuardada(variant, req[r].fecha)
         acc      == SumAcumulado(r, req[r].dni, fechaISO)
         total    == TotalItems(variant, req[r].items)
         seen     == [req[r] EXCEPT !.acc = acc, !.total = total,
                        !.accAt = LedgerSum(commits, req[r].dni, fechaISO)]
     IN  /\ req' = [req EXCEPT ![r] =
              IF ExcedeTope(acc, total)
              THEN Release(EndTx(Answered(seen, "cap")))
              ELSE [seen EXCEPT !.pc = "bump"]]
         /\ lock' = IF ExcedeTope(acc, total) THEN Unlocked(r) ELSE lock
  /\ UNCHANGED <<variant, arg, out, planillas, detalle, usuarios, counters, historial, commits, peek>>

\* The n of the dni of request r as its transaction sees it: the value it
\* wrote earlier on this connection, else the committed one.
SeenN(r) ==
  IF req[r].inh[req[r].dni] # NoRow THEN req[r].inh[req[r].dni] ELSE counters[req[r].dni]

\* Faulty variant: the counter is read and written without waiting for the row lock.
UpsertNoWait(r) ==
  /\ lock' = lock
  /\ LET n == IF SeenN(r) = NoRow THEN FirstN(variant) ELSE SeenN(r) + 1
     IN  req' = [req EXCEPT ![r].bumped = n, ![r].cnt = n, ![r].pc = "ins", ![r].i = 1]
  /\ UNCHANGED counters

\* INSERT INTO counters (dni,n) VALUES ($1,1) ON CONFLICT (dni) DO UPDATE
\* SET n=counters.n+1 RETURNING n: waits for the row lock, reads the
\* committed value and keeps the row locked until the transaction ends.
UpsertCounter(r) ==
  /\ lock[req[r].dni] \in {0, r}
  /\ lock' = [lock EXCEPT ![req[r].dni] = r]
  /\ LET n == IF SeenN(r) = NoRow THEN FirstN(variant) ELSE SeenN(r) + 1
     IN  req' = [req EXCEPT ![r].bumped = n, ![r].cnt = n, ![r].pc = "ins", ![r].i = 1]
  /\ UNCHANGED counters

Bump(r) ==
  /\ ~Autocommit(variant)
  /\ req[r].pc = "bump"
  /\ UpsertCounter(r)
  /\ UNCHANGED <<variant, arg, out, planillas, detalle, usuarios, historial, commits, peek>>

\* The historial row of item i: monto and total both carry its amount.
ItemRow(r) ==
  LET ms == Montos(variant, req[r].items)
  IN  [sub |-> r, dni |-> req[r].dni, email |-> req[r].email,
       fecha |-> FechaGuardada(variant, req[r].fecha), num |-> pad(req[r].bumped),
       monto |-> ms[req[r].i], total |-> ms[req[r].i]]

\* norm(it.destino || ''): a destino that is a number has no normalize
\* method and the call throws a TypeError.
NormThrows(r) ==
  /\ req[r].pc = "ins"
  /\ req[r].i <= Len(req[r].dest)
  /\ req[r].dest[req[r].i] = "num"

\* One turn of the insert loop: the row of item i joins the transaction.
InsertItem(r) ==
  /\ ~Autocommit(variant)
  /\ req[r].pc = "ins"
  /\ ~NormThrows(r)
  /\ LET ms  == Montos(variant, req[r].items)
         row == ItemRow(r)
     IN  req' = [req EXCEPT ![r].pend = Append(@, row),
                            ![r].i = @ + 1,
                            ![r].pc = IF req[r].i >= Len(ms) THEN "commit" ELSE "ins"]
  /\ UNCHANGED <<variant, arg, out, planillas, detalle, usuarios, counters, historial, lock, commits, peek>>

\* What COMMIT makes visible: the pending rows and the counter.
CommitWrites(r) ==
  /\ historial' = historial \o req[r].pend
  /\ counters' = [d \in DNIs |->
                    IF d = req[r].dni /\ req[r].cnt # NoRow THEN req[r].cnt
                    ELSE IF req[r].inh[d] # NoRow THEN req[r].inh[d]
                    ELSE counters[d]]

\* SELECT empresa; COMMIT; client.release(); res.json({ok: true, ...})
Commit(r) ==
  /\ req[r].pc = "commit"
  /\ CommitWrites(r)
  /\ lock' = [d \in DNIs |-> IF lock[d] = r THEN 0 ELSE lock[d]]
  /\ commits' = Append(commits, [sub |-> r, dni |-> req[r].dni,
                                 fecha |-> FechaGuardada(variant, req[r].fecha),
                                 num |-> req[r].bumped, total |-> req[r].total])
  /\ req' = [req EXCEPT ![r] = Release(EndTx(Answered(@, "ok")))]
  /\ UNCHANGED <<variant, arg, out, planillas, detalle, usuarios, peek>>

\* Faulty variant: the counter was bumped outside the transaction and survives.
RollbackKeepsCounter(r) ==
  /\ historial' = historial
  /\ counters' = IF req[r].cnt = NoRow THEN counters
                 ELSE [counters EXCEPT ![req[r].dni] = req[r].cnt]

\* Faulty variant: the rows were inserted outside the transaction and survive.
RollbackKeepsRows(r) ==
  /\ historial' = historial \o req[r].pend
  /\ counters' = counters

\* What ROLLBACK leaves of the transaction: nothing.
RollbackWrites(r) ==
  /\ historial' = historial
  /\ counters' = counters

\* A statement after BEGIN (COMMIT included) throws: catch, ROLLBACK, release.
Fail(r) ==
  /\ req[r].pc \in {"tx", "sum", "bump", "ins", "commit"}
  /\ RollbackWrites(r)
  /\ lock' = [d \in DNIs |-> IF lock[d] = r THEN 0 ELSE lock[d]]
  /\ req' = [req EXCEPT ![r] = Release(EndTx(Answered(@, "error")))]
  /\ UNCHANGED <<variant, arg, out, planillas, detalle, usuarios, commits, peek>>

\* PUT /api/usuarios (admin only in v7, open in v8, absent from v9), one
\* element of the list: upsert by email,
\* then INSERT INTO counters (dni,n) VALUES ($1,0) ON CONFLICT DO NOTHING,
\* which waits while another transaction holds an uncommitted row of the dni.
PutUsuarios(Us) ==
  \E who \in Emails, u \in Us :
    /\ variant \in {"v7", "v8"}
    /\ variant = "v7" => /\ SelectUsuario(who).ex /\ SelectUsuario(who).activo
                         /\ IsAdminRol(SelectUsuario(who).rol)
    /\ \A e \in Emails \ {u.email} : ~(usuarios[e].ex /\ usuarios[e].dni = u.dni)
    /\ ~(counters[u.dni] = NoRow /\ lock[u.dni] # 0)
    /\ usuarios' = [usuarios EXCEPT ![u.email] =
                      [ex |-> TRUE, email |-> u.email, dni |-> u.dni,
                       activo |-> u.activo, rol |-> u.rol]]
    /\ counters' = [counters EXCEPT ![u.dni] = IF @ = NoRow THEN 0 ELSE @]
    /\ UNCHANGED <<variant, arg, out, planillas, detalle, historial, req, lock, commits, peek>>

\* The submissions of a dni in the ledger, in commit order.
RECURSIVE CommitsOf(_, _)
CommitsOf(led, dni) ==
  IF led = <<>> THEN <<>>
  ELSE (IF Head(led).dni = dni THEN <<Head(led)>> ELSE <<>>) \o CommitsOf(Tail(led), dni)

\* The last answer of GET /api/counters/next; "at" remembers how many
\* submissions of the dni had committed when it was given (history).
NoPeek == [dni |-> "", next |-> <<>>, at |-> 0]

\* Faulty variant: a missing row is answered as in the servers that insert n = 0.
PeekNextCero(dni) == pad(IF counters[dni] = NoRow THEN 0 ELSE counters[dni] + 1)

\* SELECT n FROM counters WHERE dni=$1; next = rows.length ? n + 1 : 1
PeekNext(dni) == pad(IF counters[dni] = NoRow THEN 1 ELSE counters[dni] + 1)

\* GET /api/counters/next: v7 answers for the authenticated user's dni,
\* v8 and v9 for the dni of the query string.
CountersNext(Ds) ==
  \E who \in Emails, d \in Ds :
    /\ variant \in {"v7", "v8", "v9"}
    /\ variant = "v7" => /\ SelectUsuario(who).ex /\ SelectUsuario(who).activo
                         /\ d = SelectUsuario(who).dni
    /\ peek' = [dni |-> d, next |-> PeekNext(d), at |-> Len(CommitsOf(commits, d))]
    /\ UNCHANGED <<variant, arg, out, planillas, detalle, usuarios, counters, historial, req, lock, commits>>

\* The tables bootstrap creates empty, and no request in the server.
InitTables(n) ==
  /\ counters = [d \in DNIs |-> NoRow]
  /\ historial = <<>>
  /\ req = [r \in 1..n |-> ReqIdle]
  /\ lock = [d \in DNIs |-> 0]
  /\ commits = <<>>
  /\ peek = NoPeek
  /\ planillas = <<>>
  /\ detalle = <<>>
  /\ arg = <<>>
  /\ out = <<>>

InitDb(n) == usuarios = SeedUsuarios /\ InitTables(n)

\* ------------------------------------------------------------------------
\* Request texts used as inputs
\* ------------------------------------------------------------------------
F10 == <<"2", "0", "2", "4", "-", "0", "1", "-", "1", "0">>
F11 == <<"2", "0", "2", "4", "-", "0", "1", "-", "1", "1">>
F10dmy == <<"1", "0", "/", "0", "1", "/", "2", "0", "2", "4">>

M20 == <<"2", "0">>
M25 == <<"2", "5", ".", "0", "0">>
M30 == <<"3", "0", ".", "0", "0">>
M15c50 == <<"1", "5", ".", "5">>

\* dest: what the destino of each item is, "" a text or nothing, "num" a
\* number; <<>> when no item carries a destino.
Input(who, dni, email, fecha, items) ==
  [who |-> who, dni |-> dni, email |-> email, fecha |-> fecha, items |-> items,
   dest |-> <<>>]

\* ------------------------------------------------------------------------
\* server.cjs, requests one at a time, positive amounts of two decimals
\* ------------------------------------------------------------------------
InputsSeq ==
  {Input(Usuario, DniUsuario, Usuario, F10, <<M20>>),
   Input(Usuario, DniUsuario, Usuario, F10dmy, <<M30>>),
   Input(Usuario, DniUsuario, Usuario, F11, <<M30>>),
   Input(Usuario, DniUsuario, Usuario, F10, <<M15c50, M20>>),
   Input(Admin, DniUsuario, Usuario, F10, <<M25>>)}

RecvSeq(r) == (\A o \in DOMAIN req : ~InFlight(o)) /\ Recv(r, InputsSeq)

InitSeq == variant = "v7" /\ InitDb(NSeq)

NextSeq ==
  \E r \in DOMAIN req :
    \/ RecvSeq(r)
    \/ SelectU(r)
    \/ CapCheck(r)
    \/ Bump(r)
    \/ InsertItem(r)
    \/ Commit(r)
    \/ Fail(r)

SpecSeq == InitSeq /\ [][NextSeq]_vars

\* C1 (cap invariant, sequential): with requests processed one at a time and
\* positive two-decimal amounts, the totals of the accepted submissions of a
\* dni and a fecha never sum to more than TOPE.
CapInvariant ==
  \A i \in 1..Len(commits) :
    LedgerSum(commits, commits[i].dni, commits[i].fecha) <= TOPE

\* Two submissions of one worker and day were accepted and fill the cap.
CapInvariantWitness ==
  \E i, j \in 1..Len(commits) :
    /\ i < j
    /\ commits[i].dni = commits[j].dni /\ commits[i].fecha = commits[j].fecha
    /\ commits[i].total + commits[j].total = TOPE

\* ------------------------------------------------------------------------
\* server.cjs, concurrent requests of two workers and of the admin
\* ------------------------------------------------------------------------
InputsCjs ==
  {Input(Usuario, DniUsuario, Usuario, F11, <<M30>>),
   Input(Usuario, DniUsuario, Usuario, F10, <<M20, M25>>),
   Input(Usuario, DniUsuario, Usuario, F10, <<>>),
   Input(Usuario, DniAdmin, Admin, F10, <<M20>>),
   Input(Admin, DniAdmin, Admin, F10, <<M20>>),
   Input(Admin, DniOtro, Otro, F10, <<M20>>),
   Input(Otro, DniOtro, Otro, F10, <<M20>>)}

RecvCjs(r) == Recv(r, InputsCjs)

\* The admin registers a third worker.
NuevoOtro == [email |-> Otro, dni |-> DniOtro, activo |-> TRUE, rol |-> "USUARIO"]

PutUsuariosCjs == PutUsuarios({NuevoOtro})

CountersNextCjs == CountersNext({DniUsuario})

InitCjs == variant = "v7" /\ InitDb(NReq)

NextCjs ==
  \/ \E r \in DOMAIN req :
       \/ RecvCjs(r)
       \/ SelectU(r)
       \/ CapCheck(r)
       \/ Bump(r)
       \/ InsertItem(r)
       \/ Commit(r)
       \/ Fail(r)
  \/ PutUsuariosCjs
  \/ CountersNextCjs

SpecCjs == InitCjs /\ [][NextCjs]_vars

\* Voucher numbers of the committed rows of a dni, and its submissions.
NumsOf(dni) == {historial[k].num : k \in {j \in 1..Len(historial) : historial[j].dni = dni}}

SubsOf(dni) == {historial[k].sub : k \in {j \in 1..Len(historial) : historial[j].dni = dni}}

\* C3 (sequence invariant): for every dni the voucher numbers of its
\* committed submissions are exactly 1..k, k the number of its committed
\* submissions, and no two submissions share a number.
SequenceInvariant ==
  \A d \in DNIs :
    /\ NumsOf(d) = {pad(n) : n \in 1..Cardinality(SubsOf(d))}
    /\ \A i, j \in 1..Len(historial) :
         (historial[i].dni = d /\ historial[j].dni = d /\ historial[i].num = historial[j].num)
           => historial[i].sub = historial[j].sub

\* A worker holds numbers 1 and 2, given on two different dates.
SequenceWitness ==
  /\ Cardinality(SubsOf(DniUsuario)) = 2
  /\ \E i, j \in 1..Len(historial) :
       /\ historial[i].dni = DniUsuario /\ historial[j].dni = DniUsuario
       /\ historial[i].fecha # historial[j].fecha
       /\ historial[i].num # historial[j].num

\* C5 (all-or-nothing): every step of a POST /api/planillas that does not
\* end in the success answer leaves the committed historial rows and the
\* counters as they were, and a request that answered holds no row lock.
FailureLeavesNoTrace ==
  [][\A r \in DOMAIN req :
       (req'[r] # req[r] /\ req'[r].res # "ok")
         => /\ historial' = historial
            /\ counters' = counters
            /\ req'[r].pc = "done" => \A d \in DNIs : lock'[d] # r]_vars

\* A request failed after it took number 1 and inserted one of its two
\* rows: the dni has no counter row and no row of the request is stored.
FailureWitness ==
  \E r \in DOMAIN req :
    /\ req[r].res = "error" /\ req[r].bumped = 1 /\ req[r].i = 2
    /\ Len(req[r].items) = 2
    /\ counters[req[r].dni] = NoRow
    /\ \A k \in 1..Len(historial) : historial[k].sub # r

\* C10 (commit order): of two committed submissions of one dni, the one
\* that committed first holds the smaller voucher number.
CommitOrder ==
  \A i, j \in 1..Len(commits) :
    (i < j /\ commits[i].dni = commits[j].dni) => commits[i].num < commits[j].num

\* Two submissions of one dni committed in the reverse order of arrival.
CommitOrderWitness ==
  /\ Len(commits) = 2
  /\ commits[1].dni = commits[2].dni
  /\ commits[1].sub = 2 /\ commits[2].sub = 1

\* ------------------------------------------------------------------------
\* server.cjs and the v9 edition, concurrent requests of one worker and day
\* ------------------------------------------------------------------------
InputsRace ==
  {Input(Usuario, DniUsuario, Usuario, F10, its) : its \in {<<M20>>, <<M25>>, <<M30>>}}

RecvRace(r) == Recv(r, InputsRace)

InitRace == variant \in {"v7", "v9"} /\ InitDb(NReq)

NextRace ==
  \E r \in DOMAIN req :
    \/ RecvRace(r)
    \/ SelectU(r)
    \/ CapCheck(r)
    \/ Bump(r)
    \/ InsertItem(r)
    \/ Commit(r)

SpecRace == InitRace /\ [][NextRace]_vars

\* C2 (cap under concurrency): of N concurrent requests of one dni and
\* fecha, each within TOPE, the committed rows never sum to more than TOPE,
\* and every request that answered was either accepted or rejected for the
\* cap.
ConcurrentCap ==
  /\ \A k \in 1..Len(historial) :
       SumTotal(SelectRows(historial, historial[k].dni, historial[k].fecha)) <= TOPE
  /\ \A r \in DOMAIN req : req[r].pc = "done" => req[r].res \in {"ok", "cap"}

\* ------------------------------------------------------------------------
\* server.cjs and the v9 edition, a worker that is not active
\* ------------------------------------------------------------------------
InputsInactive ==
  {Input(Admin, DniUsuario, Usuario, F10, <<M20>>),
   Input(Usuario, DniUsuario, Usuario, F10, <<M25>>),
   Input(Admin, DniAdmin, Admin, F10, <<M30>>)}

RecvInactive(r) == Recv(r, InputsInactive)

\* The admin deactivates the worker.
BajaUsuario == [email |-> Usuario, dni |-> DniUsuario, activo |-> FALSE, rol |-> "USUARIO"]

PutUsuariosBaja == PutUsuarios({BajaUsuario})

\* v9 has no route that writes usuarios: its table is the one bootstrap
\* found, the seed or a table where the worker was deactivated before.
InitInactive ==
  /\ variant \in {"v7", "v9"}
  /\ InitTables(NReq)
  /\ usuarios \in IF variant = "v9"
                  THEN {SeedUsuarios, [SeedUsuarios EXCEPT ![Usuario].activo = FALSE]}
                  ELSE {SeedUsuarios}

NextInactive ==
  \/ \E r \in DOMAIN req :
       \/ RecvInactive(r)
       \/ SelectU(r)
       \/ CapCheck(r)
       \/ Bump(r)
       \/ InsertItem(r)
       \/ Commit(r)
  \/ PutUsuariosBaja

SpecInactive == InitInactive /\ [][NextInactive]_vars

\* C6 (inactive worker): a POST /api/planillas for a worker whose activo
\* flag is false is not accepted: every accepted request read an active
\* worker, and every stored row belongs to a request that did.
InactiveRejected ==
  /\ \A r \in DOMAIN req : req[r].res = "ok" => req[r].u.activo
  /\ \A k \in 1..Len(historial) : req[historial[k].sub].u.activo

\* ------------------------------------------------------------------------
\* The v9 edition: amounts as the form sends them
\* ------------------------------------------------------------------------
MS45 == <<"S", "/", " ", "4", "5", ",", "0", "0">>
MVacio == <<>>
MNeg3 == <<"-", "3">>
MAbc == <<"a", "b", "c">>
MCero == <<"0">>

InputsV9 ==
  {Input("", DniUsuario, Usuario, F10, its) :
     its \in {<<MS45>>, <<M20, MVacio, M25>>, <<Null, MNeg3>>, <<MCero, MAbc>>,
              <<MAbc, M15c50>>, <<>>}}

RecvV9(r) == Recv(r, InputsV9)

InitV9 == variant = "v9" /\ InitDb(NReq)

NextV9 ==
  \E r \in DOMAIN req :
    \/ RecvV9(r)
    \/ SelectU(r)
    \/ CapCheck(r)
    \/ Bump(r)
    \/ InsertItem(r)
    \/ Commit(r)
    \/ Fail(r)

SpecV9 == InitV9 /\ [][NextV9]_vars

\* The cleaned amounts of the items that are positive, in order.
Sobrevivientes(items) ==
  LET ms == [k \in 1..Len(items) |-> toMoney(items[k])]
      Positivo(m) == m > 0
  IN  SelectSeq(ms, Positivo)

\* The amounts of the rows of a submission, in insertion order.
RECURSIVE MontosDe(_, _)
MontosDe(rows, sub) ==
  IF rows = <<>> THEN <<>>
  ELSE (IF Head(rows).sub = sub THEN <<Head(rows).monto>> ELSE <<>>)
       \o MontosDe(Tail(rows), sub)

\* C7 (v9 item filter): every item goes through toMoney and only those
\* with an amount above zero survive; the rows written and the total come
\* from the survivors alone, and a request with no survivor is answered
\* "payload" before it runs a statement and takes no voucher number.
ItemFilter ==
  /\ \A k \in 1..Len(historial) : historial[k].monto > 0
  /\ \A r \in DOMAIN req :
       req[r].pc # "idle" =>
         LET surv == Sobrevivientes(req[r].items)
         IN  /\ surv = <<>> =>
                  /\ req[r].res = "payload" /\ ~req[r].u.ex /\ req[r].bumped = 0
                  /\ MontosDe(historial, r) = <<>>
             /\ surv # <<>> => req[r].res # "payload"
             /\ MontosDe(req[r].pend, r) = SubSeq(surv, 1, Len(req[r].pend))
             /\ req[r].pc \in {"bump", "ins", "commit"} => req[r].total = SumSeq(surv)
             /\ req[r].res = "ok" =>
                  /\ MontosDe(historial, r) = surv
                  /\ req[r].total = SumSeq(surv)

\* A request with an empty and two priced items stored exactly the two,
\* and a request whose items were all dropped was turned away.
ItemFilterWitness ==
  /\ \E r \in DOMAIN req :
       /\ req[r].res = "ok" /\ Len(req[r].items) = 3
       /\ MontosDe(historial, r) = <<2000, 2500>>
  /\ \E r \in DOMAIN req :
       /\ req[r].res = "payload" /\ Len(req[r].items) = 2

\* ------------------------------------------------------------------------
\* The server that keeps planillas and planillas_items ("p001")
\* ------------------------------------------------------------------------
\* SELECT COALESCE(SUM(pi.monto),0) FROM planillas p JOIN planillas_items pi
\* ON pi.planilla_id=p.id WHERE p.dni=$1 AND p.fecha=$2
RECURSIVE SumItemsJoin(_, _, _, _)
SumItemsJoin(heads, its, dni, fecha) ==
  IF its = <<>> THEN 0
  ELSE LET p == heads[Head(its).planilla_id]
       IN  Plus(IF p.dni = dni /\ p.fecha = fecha THEN Head(its).monto ELSE 0,
                SumItemsJoin(heads, Tail(its), dni, fecha))

\* if (acum + total > topeNum + 1e-6): amounts are whole cents, so the
\* margin of a ten-thousandth of a cent never decides.
SuperaTope(acum, total) == Gt(Plus(acum, total), TOPE)

\* The fallback loop: one planillas_items row per item, in order.
ItemRows(pid, montos) == [k \in 1..Len(montos) |-> [planilla_id |-> pid, monto |-> montos[k]]]

\* app.post("/api/planillas") from the first check to res.json, every
\* statement succeeding; the bulk INSERT of the items names a parameter
\* that is not bound, so the rows are written by the fallback loop.
PostP001(r, Inputs) ==
  /\ variant = "p001"
  /\ NextSlot(r)
  /\ \E in \in Inputs :
       LET base  == [ReqIdle EXCEPT !.who = in.who, !.dni = in.dni, !.email = in.email,
                                    !.fecha = in.fecha, !.items = in.items]
           u     == SelectUsuario(in.email)
           acum  == SumItemsJoin(planillas, detalle, in.dni, in.fecha)
           ms    == MapNumberOr0(in.items)
           total == SumSeq(ms)
           seen  == [base EXCEPT !.u = u, !.acc = acum, !.total = total,
                                 !.accAt = LedgerSum(commits, in.dni, in.fecha)]
           num   == IF counters[in.dni] = NoRow THEN 1 ELSE counters[in.dni] + 1
           pid   == Len(planillas) + 1
           early == IF in.dni = "" \/ in.email = "" \/ in.fecha = <<>> \/ in.fecha = Null
                      THEN "payload"
                    ELSE IF in.items = <<>> THEN "payload"
                    ELSE IF ~u.ex THEN "nouser"
                    ELSE IF ~u.activo THEN "inactive"
                    ELSE IF SuperaTope(acum, total) THEN "cap"
                    ELSE ""
       IN  IF early # ""
           THEN /\ req' = [req EXCEPT ![r] =
                          Answered(IF early = "cap" THEN seen ELSE base, early)]
                /\ UNCHANGED <<counters, planillas, detalle, commits>>
           ELSE /\ counters' = [counters EXCEPT ![in.dni] = num]
                /\ planillas' = Append(planillas,
                                  [id |-> pid, dni |-> in.dni, email |-> in.email,
                                   fecha |-> in.fecha, num |-> num, total |-> total])
                /\ detalle' = detalle \o ItemRows(pid, ms)
                /\ commits' = Append(commits, [sub |-> r, dni |-> in.dni, fecha |-> in.fecha,
                                               num |-> num, total |-> total])
                /\ req' = [req EXCEPT ![r] = Answered([seen EXCEPT !.bumped = num], "ok")]
  /\ UNCHANGED <<variant, arg, out, usuarios, historial, lock, peek>>

\* ------------------------------------------------------------------------
\* The cap decision of server.cjs and of p001, requests one at a time
\* ------------------------------------------------------------------------
InputsCap(v) ==
  LET d == IF v = "p001" THEN DniUsuarioP001 ELSE DniUsuario
  IN  {Input(Usuario, d, Usuario, F10, <<M20>>),
       Input(Usuario, d, Usuario, F10, <<M25>>),
       Input(Usuario, d, Usuario, F10, <<M30>>),
       Input(Usuario, d, Usuario, F11, <<M30>>),
       Input(Admin, DniAdmin, Admin, F10, <<M30>>)}

RecvCap(r) ==
  /\ variant = "v7"
  /\ \A o \in DOMAIN req : ~InFlight(o)
  /\ Recv(r, InputsCap(variant))

PostP001Cap(r) == PostP001(r, InputsCap(variant))

InitCap ==
  /\ variant \in {"v7", "p001"}
  /\ InitTables(NSeq)
  /\ usuarios = IF variant = "p001" THEN SeedUsuariosP001 ELSE SeedUsuarios

NextCap ==
  \E r \in DOMAIN req :
    \/ RecvCap(r)
    \/ SelectU(r)
    \/ CapCheck(r)
    \/ Bump(r)
    \/ InsertItem(r)
    \/ Commit(r)
    \/ Fail(r)
    \/ PostP001Cap(r)

SpecCap == InitCap /\ [][NextCap]_vars

NumberOf(v) == IF v = Null \/ v = <<>> THEN 0 ELSE Number(v)

\* Number(d.monto) || 0
NumberOrZero(v) == IF NumberOf(v) = NaN THEN 0 ELSE NumberOf(v)

\* detalles.reduce((s, d) => s + (Number(d.monto) || 0), 0)
RECURSIVE TotalPlanilla(_)
TotalPlanilla(detalles) ==
  IF detalles = <<>> THEN 0
  ELSE NumberOrZero(Head(detalles)) + TotalPlanilla(Tail(detalles))

RECURSIVE SumSet(_)
SumSet(S) == IF S = {} THEN 0 ELSE LET x == CHOOSE y \in S : TRUE IN x + SumSet(S \ {x})

Max(S) == CHOOSE x \in S : \A y \in S : y <= x

\* The rows a statement of request r sees: the committed ones and its own.
RowsSeen(r, dni, fecha) == SelectRows(historial \o req[r].pend, dni, fecha)

\* p002: SELECT COALESCE(SUM(DISTINCT total),0) FROM historial WHERE dni=$1
\* AND fecha=$2
SumDistinctTotal(rows) == SumSet({rows[k].total : k \in 1..Len(rows)})

\* js, mjs: SELECT COALESCE(SUM(t.total),0) FROM (SELECT num, MAX(total)
\* total FROM historial WHERE dni=$1 AND fecha=$2 GROUP BY num) t
RECURSIVE SumMaxOver(_, _)
SumMaxOver(nums, rows) ==
  IF nums = {} THEN 0
  ELSE LET n == CHOOSE x \in nums : TRUE
       IN  Max({rows[k].total : k \in {j \in 1..Len(rows) : rows[j].num = n}})
             + SumMaxOver(nums \ {n}, rows)

SumMaxByNum(rows) == SumMaxOver({rows[k].num : k \in 1..Len(rows)}, rows)

\* The request arrives: the bearer token (js, mjs), the body check; p002
\* then takes a client and begins its transaction.
RecvDet(r, Inputs) ==
  /\ variant \in {"js", "mjs", "p002"}
  /\ NextSlot(r)
  /\ \E in \in Inputs :
       LET base == [ReqIdle EXCEPT !.who = in.who, !.dni = in.dni, !.email = in.email,
                                   !.fecha = in.fecha, !.items = in.items]
       IN  req' = [req EXCEPT ![r] =
             IF variant # "p002" /\ in.who = ""
               THEN Answered(base, "auth")
             ELSE IF in.dni = "" \/ in.fecha = <<>> \/ in.fecha = Null \/ in.items = <<>>
               THEN Answered(base, "payload")
             ELSE [base EXCEPT !.pc = IF variant = "p002" THEN "sum" ELSE "user",
                               !.total = TotalPlanilla(in.items)]]
  /\ UNCHANGED <<variant, arg, out, planillas, detalle, usuarios, counters, historial, lock, commits, peek>>

\* js, mjs: SELECT * FROM usuarios WHERE dni=$1
SelectUsuarioByDni(dni) ==
  IF \E e \in Emails : usuarios[e].ex /\ usuarios[e].dni = dni
  THEN usuarios[CHOOSE e \in Emails : usuarios[e].ex /\ usuarios[e].dni = dni]
  ELSE NoUser

LookupByDni(r) ==
  /\ variant \in {"js", "mjs"}
  /\ req[r].pc = "user"
  /\ LET u == SelectUsuarioByDni(req[r].dni)
     IN  req' = [req EXCEPT ![r] =
           IF ~u.ex THEN Answered(@, "nouser")
           ELSE [@ EXCEPT !.pc = "sum", !.u = u]]
  /\ UNCHANGED <<variant, arg, out, planillas, detalle, usuarios, counters, historial, lock, commits, peek>>

\* Tope: the accumulated query, then acumulado + totalPlanilla > TOPE;
\* p002 answers 409 after ROLLBACK.
CapDet(r) ==
  /\ variant \in {"js", "mjs", "p002"}
  /\ req[r].pc = "sum"
  /\ LET rows == RowsSeen(r, req[r].dni, req[r].fecha)
         acc  == IF variant = "p002" THEN SumDistinctTotal(rows) ELSE SumMaxByNum(rows)
         seen == [req[r] EXCEPT !.acc = acc,
                    !.accAt = LedgerSum(commits, req[r].dni, req[r].fecha)]
     IN  req' = [req EXCEPT ![r] =
           IF acc + req[r].total > TOPE
           THEN Answered(seen, "cap")
           ELSE [seen EXCEPT !.pc = IF variant = "p002" THEN "ens" ELSE "seq"]]
  /\ UNCHANGED <<variant, arg, out, planillas, detalle, usuarios, counters, historial, lock, commits, peek>>

\* p002: INSERT INTO counters(dni,seq) VALUES($1,0) ON CONFLICT (dni) DO
\* NOTHING.  It waits only for the uncommitted insert of another
\* transaction; on a committed row it does nothing and takes no lock.
EnsureCounter(r) ==
  /\ variant = "p002"
  /\ req[r].pc = "ens"
  /\ IF counters[req[r].dni] = NoRow /\ req[r].cnt = NoRow
     THEN /\ lock[req[r].dni] = 0
          /\ lock' = [lock EXCEPT ![req[r].dni] = r]
          /\ req' = [req EXCEPT ![r].cnt = 0, ![r].pc = "seq"]
     ELSE /\ lock' = lock
          /\ req' = [req EXCEPT ![r].pc = "seq"]
  /\ UNCHANGED <<variant, arg, out, planillas, detalle, usuarios, counters, historial, commits, peek>>

\* SELECT n / seq FROM counters WHERE dni=$1; next = (n || 0) + 1.  The
\* read takes no lock and sees the committed value, or the row the
\* transaction itself wrote.
ReadCounter(r) ==
  /\ variant \in {"js", "mjs", "p002"}
  /\ req[r].pc = "seq"
  /\ LET n == IF req[r].cnt # NoRow THEN req[r].cnt
              ELSE IF counters[req[r].dni] = NoRow THEN 0 ELSE counters[req[r].dni]
     IN  req' = [req EXCEPT ![r].bumped = n + 1, ![r].pc = "upd"]
  /\ UNCHANGED <<variant, arg, out, planillas, detalle, usuarios, counters, historial, lock, commits, peek>>

\* js, mjs: INSERT ... ON CONFLICT(dni) DO UPDATE SET n=EXCLUDED.n through
\* pool.query, committed at once.  p002: UPDATE counters SET seq=$1 inside
\* the transaction, which takes the row lock and holds it until it ends.
WriteCounter(r) ==
  /\ variant \in {"js", "mjs", "p002"}
  /\ req[r].pc = "upd"
  /\ lock[req[r].dni] \in {0, r}
  /\ IF variant = "p002"
     THEN /\ lock' = [lock EXCEPT ![req[r].dni] = r]
          /\ req' = [req EXCEPT ![r].cnt = req[r].bumped, ![r].pc = "ins", ![r].i = 1]
          /\ counters' = counters
     ELSE /\ lock' = lock
          /\ req' = [req EXCEPT ![r].pc = "ins", ![r].i = 1]
          /\ counters' = [counters EXCEPT ![req[r].dni] = req[r].bumped]
  /\ UNCHANGED <<variant, arg, out, planillas, detalle, usuarios, historial, commits, peek>>

\* p002: if (!d || Number(d.monto) <= 0) continue;
Skipped(v, d) == v = "p002" /\ NumberOf(d) # NaN /\ NumberOf(d) <= 0

\* One turn of the insert loop (js and mjs run BEGIN before the first): the
\* row carries the item's amount and the total of the whole submission.
InsertDetalle(r) ==
  /\ variant \in {"js", "mjs", "p002"}
  /\ req[r].pc = "ins"
  /\ LET d   == req[r].items[req[r].i]
         row == [sub |-> r, dni |-> req[r].dni,
                 email |-> IF variant = "p002" THEN req[r].email ELSE req[r].u.email,
                 fecha |-> req[r].fecha, num |-> pad(req[r].bumped),
                 monto |-> NumberOrZero(d), total |-> req[r].total]
     IN  req' = [req EXCEPT ![r].pend = IF Skipped(variant, d) THEN @ ELSE Append(@, row),
                            ![r].i = @ + 1,
                            ![r].pc = IF req[r].i >= Len(req[r].items) THEN "commit" ELSE "ins"]
  /\ UNCHANGED <<variant, arg, out, planillas, detalle, usuarios, counters, historial, lock, commits, peek>>

\* p002, GET /api/counters/next: "si no hay fila, la crea" with seq 0, then
\* answers pad5(seq + 1).  The insert waits for the uncommitted insert of a
\* transaction.
CountersNextP002(Ds) ==
  \E d \in Ds :
    /\ variant = "p002"
    /\ ~(counters[d] = NoRow /\ lock[d] # 0)
    /\ counters' = [counters EXCEPT ![d] = IF @ = NoRow THEN 0 ELSE @]
    /\ peek' = [dni |-> d, next |-> pad((IF counters[d] = NoRow THEN 0 ELSE counters[d]) + 1),
                at |-> Len(CommitsOf(commits, d))]
    /\ UNCHANGED <<variant, arg, out, planillas, detalle, usuarios, historial, req, lock, commits>>

\* ------------------------------------------------------------------------
\* js, mjs and p002: concurrent requests
\* ------------------------------------------------------------------------
InputsDet ==
  {Input(Usuario, DniUsuario, Usuario, F10, <<M20>>),
   Input(Usuario, DniUsuario, Usuario, F11, <<M20, MCero>>),
   Input(Usuario, DniUsuario, Usuario, F10, <<>>),
   Input(Admin, DniAdmin, Admin, F10, <<M30>>),
   Input("", DniOtro, Otro, F10, <<M30>>)}

RecvDetConc(r) == RecvDet(r, InputsDet)

CountersNextDet == CountersNextP002({DniUsuario})

InitDet == variant \in {"js", "mjs", "p002"} /\ InitDb(NReq)

NextDet ==
  \/ \E r \in DOMAIN req :
       \/ RecvDetConc(r)
       \/ LookupByDni(r)
       \/ CapDet(r)
       \/ EnsureCounter(r)
       \/ ReadCounter(r)
       \/ WriteCounter(r)
       \/ InsertDetalle(r)
       \/ Commit(r)
  \/ CountersNextDet

SpecDet == InitDet /\ [][NextDet]_vars

\* C4 (no duplicate number): two concurrent submissions of one dni never
\* get the same voucher number: stored rows of one dni that carry the same
\* num belong to the same submission.
UniqueNumbers ==
  \A i, j \in 1..Len(historial) :
    (historial[i].dni = historial[j].dni /\ historial[i].num = historial[j].num)
      => historial[i].sub = historial[j].sub

\* ------------------------------------------------------------------------
\* p002: requests one at a time
\* ------------------------------------------------------------------------
InputsP002 ==
  {Input("", DniUsuario, Usuario, F10, <<M20>>),
   Input("", DniUsuario, Usuario, F10, <<M15c50, MCero>>),
   Input("", DniUsuario, Usuario, F11, <<M20>>),
   Input("", DniAdmin, Admin, F10, <<M20>>),
   Input("", DniUsuario, Usuario, Null, <<M20>>)}

RecvP002(r) ==
  /\ \A o \in DOMAIN req : ~InFlight(o)
  /\ RecvDet(r, InputsP002)

CountersNextSeq == CountersNextP002({DniUsuario})

InitP002 == variant = "p002" /\ InitDb(NSeq)

NextP002 ==
  \/ \E r \in DOMAIN req :
       \/ RecvP002(r)
       \/ CapDet(r)
       \/ EnsureCounter(r)
       \/ ReadCounter(r)
       \/ WriteCounter(r)
       \/ InsertDetalle(r)
       \/ Commit(r)
  \/ CountersNextSeq

SpecP002 == InitP002 /\ [][NextP002]_vars

\* C9 (accumulated amount): the amount the cap check of a request uses is
\* the sum of the totals of the submissions already stored for its dni and
\* fecha, each submission counted once, whatever the number of its rows
\* and whether or not two submissions have the same total.
AcumuladoCountsEach ==
  \A r \in DOMAIN req :
    (req[r].res \in {"ok", "cap"} \/ req[r].pc \in {"ens", "seq", "upd", "ins", "commit"})
      => req[r].acc = req[r].accAt

\* ------------------------------------------------------------------------
\* part_004 ("p004"), the v3 of part_005 and the v4 of part_007
\* ------------------------------------------------------------------------
\* p004, v3: the counter upsert through pool.query, committed at once.
BumpAuto(r) ==
  /\ Autocommit(variant)
  /\ req[r].pc = "bump"
  /\ lock[req[r].dni] = 0
  /\ LET n == IF counters[req[r].dni] = NoRow THEN FirstN(variant)
              ELSE counters[req[r].dni] + 1
     IN  /\ counters' = [counters EXCEPT ![req[r].dni] = n]
         /\ req' = [req EXCEPT ![r].bumped = n, ![r].pc = "ins", ![r].i = 1]
  /\ UNCHANGED <<variant, arg, out, planillas, detalle, usuarios, historial, lock, commits, peek>>

\* p004, v3: one turn of the insert loop, the row committed at once.
InsertAuto(r) ==
  /\ Autocommit(variant)
  /\ req[r].pc = "ins"
  /\ historial' = Append(historial, ItemRow(r))
  /\ req' = [req EXCEPT ![r].i = @ + 1,
                        ![r].pc = IF req[r].i >= Len(req[r].items) THEN "commit" ELSE "ins"]
  /\ UNCHANGED <<variant, arg, out, planillas, detalle, usuarios, counters, lock, commits, peek>>

InputsFirst ==
  {Input("", DniUsuario, Usuario, F10, <<M20>>),
   Input("", DniUsuario, Usuario, F10dmy, <<M20, M25>>),
   Input("", DniAdmin, Admin, F10, <<M30>>),
   Input("", DniOtro, Otro, F10, <<M30>>),
   Input("", DniUsuario, Usuario, F10, <<>>)}

RecvFirst(r) == Recv(r, InputsFirst)

InitFirst == variant \in {"p004", "v3", "v4"} /\ InitDb(NReq)

NextFirst ==
  \E r \in DOMAIN req :
    \/ RecvFirst(r)
    \/ SelectU(r)
    \/ CapCheck(r)
    \/ Bump(r)
    \/ BumpAuto(r)
    \/ InsertItem(r)
    \/ InsertAuto(r)
    \/ Commit(r)

SpecFirst == InitFirst /\ [][NextFirst]_vars

\* C11 (first number): the first submission of a dni that has no counters
\* row gets voucher number 1, shown 00001, and the row is created holding
\* 1: a counters row never holds less than 1, no stored row carries 00000,
\* and a dni with stored rows has rows numbered 00001.
FirstNumberIsOne ==
  /\ \A d \in DNIs : counters[d] # NoRow => counters[d] >= 1
  /\ \A k \in 1..Len(historial) :
       /\ historial[k].num # pad(0)
       /\ \E j \in 1..Len(historial) :
            historial[j].dni = historial[k].dni /\ historial[j].num = pad(1)

\* ------------------------------------------------------------------------
\* server.cjs and v9: GET /api/counters/next beside concurrent submissions
\* ------------------------------------------------------------------------
InputsPeek ==
  {Input(Usuario, DniUsuario, Usuario, F10, <<M20>>),
   Input(Usuario, DniUsuario, Usuario, F11, <<M30>>),
   Input(Admin, DniOtro, Otro, F10, <<M20>>),
   Input(Admin, DniAdmin, Admin, F10, <<M30>>)}

RecvPeek(r) == Recv(r, InputsPeek)

PutUsuariosPeek == PutUsuarios({NuevoOtro})

CountersNextPeek == CountersNext({DniUsuario, DniOtro})

InitPeek == variant \in {"v7", "v9"} /\ InitDb(NReq)

NextPeek ==
  \/ \E r \in DOMAIN req :
       \/ RecvPeek(r)
       \/ SelectU(r)
       \/ CapCheck(r)
       \/ Bump(r)
       \/ InsertItem(r)
       \/ Commit(r)
       \/ Fail(r)
  \/ PutUsuariosPeek
  \/ CountersNextPeek

SpecPeek == InitPeek /\ [][NextPeek]_vars

\* C12 (peek): GET /api/counters/next changes neither counters nor
\* historial, and the number it answered for a dni is the number of the
\* next submission of that dni to commit after the answer.
PeekIsPeek ==
  /\ [](peek.dni # "" =>
         LET cs == CommitsOf(commits, peek.dni)
         IN  Len(cs) > peek.at => pad(cs[peek.at + 1].num) = peek.next)
  /\ [][peek' # peek => (counters' = counters /\ historial' = historial)]_vars

\* A dni was asked its next number after one of its submissions had
\* committed, and its next submission has committed since.
PeekWitness ==
  /\ peek.dni # "" /\ peek.at = 1
  /\ Len(CommitsOf(commits, peek.dni)) = 2

\* ------------------------------------------------------------------------
\* The voucher serie: initialsSerie of part_003 ("p003"), initials of p001
\* ------------------------------------------------------------------------
LowerChars == <<"a", "e", "j", "l", "n", "p", "z", "á", "é", "ñ">>
UpperChars == <<"A", "E", "J", "L", "N", "P", "Z", "Á", "É", "Ñ">>

\* String.prototype.toUpperCase, one character.
UpperChar(c) ==
  IF \E k \in 1..Len(LowerChars) : LowerChars[k] = c
  THEN UpperChars[CHOOSE k \in 1..Len(LowerChars) : LowerChars[k] = c]
  ELSE c

ToUpperCase(s) == [k \in 1..Len(s) |-> UpperChar(s[k])]

\* s.trim().split(/\s+/)[0]: the characters up to the first blank.
RECURSIVE UpToBlank(_)
UpToBlank(s) ==
  IF s = <<>> \/ Head(s) = " " THEN <<>> ELSE <<Head(s)>> \o UpToBlank(Tail(s))

FirstToken(name) == UpToBlank(Trim(IF name = Null THEN <<>> ELSE name))

\* s[0] || 'X'
FirstOrX(s) == IF s = <<>> THEN "X" ELSE s[1]

\* p003: ((n[0] || 'X') + (a[0] || 'X')).toUpperCase() of the first tokens.
initialsSerie(nombres, apellidos) ==
  ToUpperCase(<<FirstOrX(FirstToken(nombres)), FirstOrX(FirstToken(apellidos))>>)

\* p001: (n[0] || 'X') + (a[0] || 'X') of the trimmed, upper-cased names.
initials(nombres, apellidos) ==
  LET n == ToUpperCase(Trim(IF nombres = Null THEN <<>> ELSE nombres))
      a == ToUpperCase(Trim(IF apellidos = Null THEN <<>> ELSE apellidos))
  IN  <<FirstOrX(n), FirstOrX(a)>>

\* Names as the usuarios table may hold them.
Nombres ==
  {<<>>, Null, <<" ", " ">>, <<"a", "n", "a">>, <<" ", "j", "e", " ", "l", "e">>,
   <<"Á", "n", "a">>, <<"é", "l">>, <<"ñ", "a", "p", "a">>,
   <<"P", "e", "p", "e", " ", "J">>, <<"Z", "é">>}

\* Counter values that reach the voucher code.
Numeros == {1, 12, 99999, 100000}

\* const serie = initialsSerie(u.nombres, u.apellidos);
\* const numero = `${serie}${pad5(num)}` (p003 only).
ApplySerie ==
  /\ out = <<>>
  /\ LET serie == IF variant = "p003" THEN initialsSerie(arg.nombres, arg.apellidos)
                  ELSE initials(arg.nombres, arg.apellidos)
     IN  out' = [serie |-> serie,
                 numero |-> IF variant = "p003" THEN serie \o pad(arg.num) ELSE <<>>]
  /\ UNCHANGED <<variant, usuarios, counters, historial, req, lock, commits, peek,
                 planillas, detalle, arg>>

InitSerie ==
  /\ variant \in {"p003", "p001"}
  /\ usuarios = SeedUsuarios
  /\ counters = [d \in DNIs |-> NoRow]
  /\ historial = <<>> /\ commits = <<>> /\ planillas = <<>> /\ detalle = <<>>
  /\ req = [r \in 1..NReq |-> ReqIdle]
  /\ lock = [d \in DNIs |-> 0]
  /\ peek = NoPeek
  /\ arg \in [nombres : Nombres, apellidos : Nombres, num : Numeros]
  /\ out = <<>>

NextSerie == ApplySerie

SpecSerie == InitSerie /\ [][NextSerie]_vars

\* Removal of the accent of a letter.
SinAcento(c) ==
  CASE c = "á" -> "a" [] c = "é" -> "e" [] c = "ñ" -> "n"
    [] c = "Á" -> "A" [] c = "É" -> "E" [] c = "Ñ" -> "N"
    [] OTHER -> c

\* The letter a name contributes: its first non-blank character without
\* accent and in upper case, X when it has none.
LetraDe(name) ==
  LET s == IF name = Null THEN <<>> ELSE name
      ks == {k \in 1..Len(s) : s[k] # " "}
  IN  IF ks = {} THEN "X"
      ELSE UpperChar(SinAcento(s[CHOOSE k \in ks : \A j \in ks : k <= j]))

\* C13 (serie): for any first and last name the serie is exactly the two
\* letters of the names, upper-cased and without accent, X for a missing
\* name, and the voucher code is the serie followed by the number padded
\* with zeros to five digits.
SerieContract ==
  out # <<>> =>
    /\ out.serie = <<LetraDe(arg.nombres), LetraDe(arg.apellidos)>>
    /\ variant = "p003" =>
         LET ds == DigitsOf(arg.num)
             zs == [k \in 1..(IF Len(ds) < 5 THEN 5 - Len(ds) ELSE 0) |-> "0"]
         IN  out.numero = out.serie \o zs \o ds

\* ------------------------------------------------------------------------
\* server.cjs: amounts that are zero, negative, not numeric or missing
\* ------------------------------------------------------------------------
InputsMonto ==
  {Input(Usuario, DniUsuario, Usuario, F10, its) :
     its \in {<<M20>>, <<MCero>>, <<MNeg3>>, <<MAbc>>, <<Null>>, <<M25, MVacio>>}}

RecvMonto(r) == Recv(r, InputsMonto)

InitMonto == variant = "v7" /\ InitDb(NReq)

NextMonto ==
  \E r \in DOMAIN req :
    \/ RecvMonto(r)
    \/ SelectU(r)
    \/ CapCheck(r)
    \/ Bump(r)
    \/ InsertItem(r)
    \/ Commit(r)
    \/ Fail(r)

SpecMonto == InitMonto /\ [][NextMonto]_vars

\* C14 (positive amounts): every stored historial row has a monto that is
\* a finite number above 0, whatever amounts the request carried.
MontoPositive ==
  \A k \in 1..Len(historial) : historial[k].monto # NaN /\ historial[k].monto > 0

\* ------------------------------------------------------------------------
\* server.cjs: PUT /api/historial and DELETE /api/historial
\* ------------------------------------------------------------------------
\* PUT /api/historial with a list of one change c for the row at position
\* k: a requester who is no admin must own the row (SELECT 1 ... WHERE id=$1
\* AND dni=$2), then the UPDATE rewrites fecha, num, monto and total.
PutHistorial(Cs) ==
  \E who \in Emails, k \in 1..Len(historial), c \in Cs :
    /\ variant = "v7"
    /\ AuthOk(variant, who, "")
    /\ arg' = [op |-> "put", who |-> who]
    /\ IF ~IsAdminRol(SelectUsuario(who).rol) /\ historial[k].dni # SelectUsuario(who).dni
       THEN out' = "forbidden" /\ UNCHANGED historial
       ELSE /\ out' = "ok"
            /\ historial' = [historial EXCEPT
                 ![k].fecha = normalizeFecha(c.fecha), ![k].num = c.num,
                 ![k].monto = NumberOr0(c.monto), ![k].total = NumberOr0(c.total)]
    /\ UNCHANGED <<variant, planillas, detalle, usuarios, counters, req, lock, commits, peek>>

\* The rows a DELETE leaves: those outside ids and, when the requester is
\* no admin, those of another dni.
RECURSIVE RowsLeft(_, _, _, _)
RowsLeft(rows, pos, ids, dni) ==
  IF rows = <<>> THEN <<>>
  ELSE IF pos \in ids /\ (dni = "" \/ Head(rows).dni = dni)
       THEN RowsLeft(Tail(rows), pos + 1, ids, dni)
       ELSE <<Head(rows)>> \o RowsLeft(Tail(rows), pos + 1, ids, dni)

\* DELETE /api/historial: DELETE ... WHERE id = ANY($1) AND dni=$2 for a
\* requester who is no admin, DELETE ... WHERE id = ANY($1) for an admin.
DeleteHistorial ==
  \E who \in Emails, ids \in ({{k} : k \in 1..Len(historial)} \cup {1..Len(historial)}) :
    /\ variant = "v7"
    /\ AuthOk(variant, who, "")
    /\ ids # {}
    /\ arg' = [op |-> "delete", who |-> who]
    /\ out' = "ok"
    /\ historial' = RowsLeft(historial, 1, ids,
                       IF IsAdminRol(SelectUsuario(who).rol) THEN "" ELSE SelectUsuario(who).dni)
    /\ UNCHANGED <<variant, planillas, detalle, usuarios, counters, req, lock, commits, peek>>

InputsEdit ==
  {Input(Usuario, DniUsuario, Usuario, F10, <<M20>>),
   Input(Usuario, DniUsuario, Usuario, F10, <<M25>>),
   Input(Admin, DniAdmin, Admin, F10, <<M20>>)}

RecvEdit(r) == Recv(r, InputsEdit)

\* The changes a client sends: the amount lowered to 0, the day moved.
CambiosEdit ==
  {[fecha |-> F10, num |-> pad(1), monto |-> MCero, total |-> MCero],
   [fecha |-> F11, num |-> pad(1), monto |-> M20, total |-> M20]}

PutHistorialEdit == PutHistorial(CambiosEdit)

InitEdit == variant = "v7" /\ InitDb(NReq)

NextEdit ==
  \/ \E r \in DOMAIN req :
       \/ RecvEdit(r)
       \/ SelectU(r)
       \/ CapCheck(r)
       \/ Bump(r)
       \/ InsertItem(r)
       \/ Commit(r)
       \/ Fail(r)
  \/ PutHistorialEdit
  \/ DeleteHistorial

SpecEdit == InitEdit /\ [][NextEdit]_vars

\* The table only grew: every row it had is still there, unchanged.
SoloCrece(antes, ahora) ==
  Len(ahora) >= Len(antes) /\ SubSeq(ahora, 1, Len(antes)) = antes

\* C15 (only an admin corrects the ledger): a step that changes or removes a
\* persisted historial row is a PUT or DELETE /api/historial of an admin;
\* no request of a user who is no admin modifies or removes a row.
SoloAdminCorrige ==
  [][SoloCrece(historial, historial') \/ IsAdminRol(SelectUsuario(arg'.who).rol)]_vars

\* ------------------------------------------------------------------------
\* server.cjs: submissions on behalf of another worker
\* ------------------------------------------------------------------------
InputsOwn ==
  {Input(Usuario, DniUsuario, Usuario, F10, <<M20>>),
   Input(Usuario, DniOtro, Usuario, F10, <<M20>>),
   Input(Usuario, DniUsuario, Otro, F10, <<M20>>),
   Input(Usuario, DniAdmin, Admin, F10, <<M20>>),
   Input(Admin, DniUsuario, Usuario, F10, <<M25>>),
   Input(Otro, DniOtro, Otro, F10, <<M20>>)}

RecvOwn(r) == Recv(r, InputsOwn)

PutUsuariosOwn == PutUsuarios({NuevoOtro})

InitOwn == variant = "v7" /\ InitDb(NReq)

NextOwn ==
  \/ \E r \in DOMAIN req :
       \/ RecvOwn(r)
       \/ SelectU(r)
       \/ CapCheck(r)
       \/ Bump(r)
       \/ InsertItem(r)
       \/ Commit(r)
       \/ Fail(r)
  \/ PutUsuariosOwn

SpecOwn == InitOwn /\ [][NextOwn]_vars

\* The request of slot r came from a user who is no admin.
DeUsuarioNormal(r) ==
  req[r].pc # "idle" /\ req[r].res # "auth" /\ ~req[r].isAdmin

\* The body of request r names a dni or an email that is not the requester's.
Ajeno(r) ==
  \/ req[r].dni # SelectUsuario(req[r].who).dni
  \/ req[r].email # SelectUsuario(req[r].who).email

\* C16 (own data only): a submission of a user who is no admin whose body
\* dni or email is not their own is answered 403 and writes nothing, and
\* every historial row and counter increment caused by a request of a user
\* who is no admin carries that user's own dni and email.
OwnRowsOnly ==
  /\ \A r \in DOMAIN req :
       (DeUsuarioNormal(r) /\ Ajeno(r)) =>
         /\ req[r].pc = "done" /\ req[r].res = "forbidden"
         /\ req[r].pend = <<>> /\ req[r].cnt = NoRow
         /\ \A k \in 1..Len(historial) : historial[k].sub # r
         /\ \A k \in 1..Len(commits) : commits[k].sub # r
  /\ \A r \in DOMAIN req :
       DeUsuarioNormal(r) =>
         /\ \A k \in 1..Len(req[r].pend) :
              /\ req[r].pend[k].dni = SelectUsuario(req[r].who).dni
              /\ req[r].pend[k].email = SelectUsuario(req[r].who).email
         /\ \A k \in 1..Len(historial) :
              historial[k].sub = r =>
                /\ historial[k].dni = SelectUsuario(req[r].who).dni
                /\ historial[k].email = SelectUsuario(req[r].who).email
         /\ \A k \in 1..Len(commits) :
              commits[k].sub = r => commits[k].dni = SelectUsuario(req[r].who).dni

\* One request of a user for another worker was refused and a request of the
\* same user for themselves was stored.
OwnRowsWitness ==
  \E r, o \in DOMAIN req :
    /\ DeUsuarioNormal(r) /\ Ajeno(r) /\ req[r].res = "forbidden"
    /\ DeUsuarioNormal(o) /\ ~Ajeno(o) /\ req[o].res = "ok"
    /\ \E k \in 1..Len(historial) : historial[k].sub = o

\* ------------------------------------------------------------------------
\* server.cjs and p002: the answer to a submission over the cap
\* ------------------------------------------------------------------------
\* The body of the answer when acc + total > TOPE.  server.cjs: status 400,
\* {ok: false, msg: `Excede el tope diario de S/${TOPE}. Acumulado:
\* S/${acc}`}; p002: status 409, {error, acumulado, disponible, tope}.
RespuestaTope(v, acc, total) ==
  IF v = "p002"
  THEN [error |-> "tope_superado", acumulado |-> acc,
        disponible |-> Max({0, TOPE - acc}), tope |-> TOPE]
  ELSE [ok |-> FALSE,
        msg |-> <<"Excede el tope diario de S/", TOPE, ". Acumulado: S/", acc>>]

InputsTope ==
  {Input(Usuario, DniUsuario, Usuario, F10, <<M20>>),
   Input(Usuario, DniUsuario, Usuario, F10, <<M30>>),
   Input(Usuario, DniUsuario, Usuario, F10, <<M20, M25>>),
   Input(Usuario, DniUsuario, Usuario, F11, <<M30>>)}

RecvTope(r) ==
  /\ \A o \in DOMAIN req : ~InFlight(o)
  /\ IF variant = "v7" THEN Recv(r, InputsTope) ELSE RecvDet(r, InputsTope)

InitTope == variant \in {"v7", "p002"} /\ InitDb(NSeq)

NextTope ==
  \E r \in DOMAIN req :
    \/ RecvTope(r)
    \/ variant = "v7" /\ SelectU(r)
    \/ variant = "v7" /\ CapCheck(r)
    \/ variant = "v7" /\ Bump(r)
    \/ variant = "v7" /\ InsertItem(r)
    \/ CapDet(r)
    \/ EnsureCounter(r)
    \/ ReadCounter(r)
    \/ WriteCounter(r)
    \/ InsertDetalle(r)
    \/ Commit(r)

SpecTope == InitTope /\ [][NextTope]_vars

\* The accumulated amount and the cap as a client reads them in the body.
AcumuladoEn(b) == IF "acumulado" \in DOMAIN b THEN b.acumulado ELSE b.msg[4]

TopeEn(b) == IF "tope" \in DOMAIN b THEN b.tope ELSE b.msg[2]

\* C17 (cap answer): the answer to a submission rejected for exceeding the
\* cap carries the accumulated amount, equal to the stored sum of the dni
\* and fecha at the time of the check, the cap, and the attempted total.
CapAnswerComplete ==
  \A r \in DOMAIN req :
    req[r].res = "cap" =>
      LET b == RespuestaTope(variant, req[r].acc, req[r].total)
      IN  /\ AcumuladoEn(b) = req[r].accAt
          /\ TopeEn(b) = TOPE
          /\ "total" \in DOMAIN b
          /\ b.total = req[r].total

\* ------------------------------------------------------------------------
\* The server.js of part_007 ("s7"): every statement through pool.query
\* ------------------------------------------------------------------------
\* A counters/next route that increments n stops being called at this
\* value of n.
MaxNext == 2

\* Contadores en 0: the rows bootstrap seeds beside the two users.
SeedCounters7 == [d \in DNIs |-> IF d \in {DniAdmin, DniUsuario} THEN 0 ELSE NoRow]

\* POST /api/usuarios, first statement: the upsert of the user by email.
PostUsuariosUpsert7(Us) ==
  \E u \in Us :
    /\ variant = "s7"
    /\ u.dni # "" /\ u.email # ""
    /\ usuarios' = [usuarios EXCEPT ![u.email] =
                      [ex |-> TRUE, email |-> u.email, dni |-> u.dni,
                       activo |-> u.activo, rol |-> u.rol]]
    /\ UNCHANGED <<variant, arg, out, planillas, detalle, counters, historial, req, lock, commits, peek>>

\* POST /api/usuarios, second statement, once the user is stored: INSERT
\* INTO counters (dni, n) VALUES ($1, 0) ON CONFLICT (dni) DO NOTHING.
PostUsuariosCounter7(Us) ==
  \E u \in Us :
    /\ variant = "s7"
    /\ usuarios[u.email].ex /\ usuarios[u.email].dni = u.dni
    /\ counters' = IF counters[u.dni] = NoRow THEN [counters EXCEPT ![u.dni] = 0] ELSE counters
    /\ UNCHANGED <<variant, arg, out, planillas, detalle, usuarios, historial, req, lock, commits, peek>>

\* POST /api/counters/next, first statement: INSERT INTO counters (dni,n)
\* VALUES ($1,0) ON CONFLICT (dni) DO NOTHING.
CountersNextEnsure7(Ds) ==
  \E d \in Ds :
    /\ variant = "s7"
    /\ counters[d] = NoRow
    /\ counters' = [counters EXCEPT ![d] = 0]
    /\ UNCHANGED <<variant, arg, out, planillas, detalle, usuarios, historial, req, lock, commits, peek>>

\* POST /api/counters/next, second statement, the row being there: UPDATE
\* counters SET n = n + 1 WHERE dni=$1 RETURNING n; the answer is pad5(n).
CountersNextBump7(Ds) ==
  \E d \in Ds :
    /\ variant = "s7"
    /\ counters[d] # NoRow /\ counters[d] < MaxNext
    /\ counters' = [counters EXCEPT ![d] = @ + 1]
    /\ peek' = [dni |-> d, next |-> pad(counters[d] + 1), at |-> Len(CommitsOf(commits, d))]
    /\ UNCHANGED <<variant, arg, out, planillas, detalle, usuarios, historial, req, lock, commits>>

\* POST /api/historial arrives: dni, fecha y detalles requeridos.
RecvHist7(r, Inputs) ==
  /\ variant = "s7"
  /\ NextSlot(r)
  /\ \E in \in Inputs :
       LET base == [ReqIdle EXCEPT !.who = in.who, !.dni = in.dni, !.email = in.email,
                                   !.fecha = in.fecha, !.items = in.items]
       IN  req' = [req EXCEPT ![r] =
             IF in.dni = "" \/ in.fecha = <<>> \/ in.fecha = Null \/ in.items = <<>>
             THEN Answered(base, "payload")
             ELSE [base EXCEPT !.pc = "user", !.total = TotalPlanilla(in.items)]]
  /\ UNCHANGED <<variant, arg, out, planillas, detalle, usuarios, counters, historial, lock, commits, peek>>

\* SELECT email, nombres, apellidos FROM usuarios WHERE dni=$1 LIMIT 1
UserHist7(r) ==
  /\ variant = "s7"
  /\ req[r].pc = "user"
  /\ LET u == SelectUsuarioByDni(req[r].dni)
     IN  req' = [req EXCEPT ![r] =
           IF ~u.ex THEN Answered(@, "nouser")
           ELSE [@ EXCEPT !.pc = "upd", !.u = u]]
  /\ UNCHANGED <<variant, arg, out, planillas, detalle, usuarios, counters, historial, lock, commits, peek>>

\* UPDATE counters SET n=n+1 WHERE dni=$1 RETURNING n: no row, no update.
UpdateN7(r) ==
  /\ variant = "s7"
  /\ req[r].pc = "upd"
  /\ IF counters[req[r].dni] = NoRow
     THEN /\ req' = [req EXCEPT ![r].pc = "mk"]
          /\ UNCHANGED counters
     ELSE /\ req' = [req EXCEPT ![r].pc = "sel"]
          /\ counters' = [counters EXCEPT ![req[r].dni] = @ + 1]
  /\ UNCHANGED <<variant, arg, out, planillas, detalle, usuarios, historial, lock, commits, peek>>

\* INSERT INTO counters (dni,n) VALUES ($1,1) ON CONFLICT (dni) DO UPDATE
\* SET n=1: whatever the row holds by now, it holds 1 afterwards.
MakeN7(r) ==
  /\ variant = "s7"
  /\ req[r].pc = "mk"
  /\ counters' = [counters EXCEPT ![req[r].dni] = 1]
  /\ req' = [req EXCEPT ![r].pc = "sel"]
  /\ UNCHANGED <<variant, arg, out, planillas, detalle, usuarios, historial, lock, commits, peek>>

\* SELECT n FROM counters WHERE dni=$1: the number of the submission.
SelectN7(r) ==
  /\ variant = "s7"
  /\ req[r].pc = "sel"
  /\ req' = [req EXCEPT ![r].bumped = counters[req[r].dni], ![r].pc = "ins", ![r].i = 1]
  /\ UNCHANGED <<variant, arg, out, planillas, detalle, usuarios, counters, historial, lock, commits, peek>>

\* One turn of the insert loop, the row committed at once; after the last
\* one res.json({ok: true, serie, num, total}).
InsertHist7(r) ==
  /\ variant = "s7"
  /\ req[r].pc = "ins"
  /\ historial' = Append(historial,
       [sub |-> r, dni |-> req[r].dni, email |-> req[r].u.email, fecha |-> req[r].fecha,
        num |-> pad(req[r].bumped), monto |-> NumberOrZero(req[r].items[req[r].i]),
        total |-> req[r].total])
  /\ IF req[r].i >= Len(req[r].items)
     THEN /\ req' = [req EXCEPT ![r] = Answered(@, "ok")]
          /\ commits' = Append(commits, [sub |-> r, dni |-> req[r].dni, fecha |-> req[r].fecha,
                                         num |-> req[r].bumped, total |-> req[r].total])
     ELSE /\ req' = [req EXCEPT ![r].i = @ + 1]
          /\ UNCHANGED commits
  /\ UNCHANGED <<variant, arg, out, planillas, detalle, usuarios, counters, lock, peek>>

InputsHist7 ==
  {Input("", DniUsuario, "", F10, <<M20>>),
   Input("", DniOtro, "", F10, <<M20, M25>>),
   Input("", DniOtro, "", F10, <<>>)}

RecvHistConc7(r) == RecvHist7(r, InputsHist7)

PostUsuariosUpsertOtro7 == PostUsuariosUpsert7({NuevoOtro})

PostUsuariosCounterOtro7 == PostUsuariosCounter7({NuevoOtro})

CountersNextEnsureOtro7 == CountersNextEnsure7({DniOtro})

CountersNextBumpOtro7 == CountersNextBump7({DniOtro})

Init7 ==
  /\ variant = "s7"
  /\ usuarios = SeedUsuarios
  /\ counters = SeedCounters7
  /\ historial = <<>> /\ commits = <<>> /\ planillas = <<>> /\ detalle = <<>>
  /\ req = [r \in 1..NReq |-> ReqIdle]
  /\ lock = [d \in DNIs |-> 0]
  /\ peek = NoPeek
  /\ arg = <<>>
  /\ out = <<>>

Next7 ==
  \/ \E r \in DOMAIN req :
       \/ RecvHistConc7(r)
       \/ UserHist7(r)
       \/ UpdateN7(r)
       \/ MakeN7(r)
       \/ SelectN7(r)
       \/ InsertHist7(r)
  \/ PostUsuariosUpsertOtro7
  \/ PostUsuariosCounterOtro7
  \/ CountersNextEnsureOtro7
  \/ CountersNextBumpOtro7

Spec7 == Init7 /\ [][Next7]_vars

\* C18 (counter of the server.js of part_007): counters.n of a dni never
\* decreases over any interleaving of bootstrap seed, POST /api/usuarios,
\* POST /api/counters/next and POST /api/historial, and each value of n is
\* handed to at most one submission.
CounterNeverDecreases ==
  /\ [][\A d \in DNIs : counters[d] # NoRow =>
          (counters'[d] # NoRow /\ counters'[d] >= counters[d])]_vars
  /\ [](\A r, o \in DOMAIN req :
          (/\ r # o
           /\ req[r].pc = "ins" \/ req[r].res = "ok"
           /\ req[o].pc = "ins" \/ req[o].res = "ok"
           /\ req[r].dni = req[o].dni) => req[r].bumped # req[o].bumped)

\* ------------------------------------------------------------------------
\* part_003 ("p003"): POST /api/planillas, one historial row per submission
\* ------------------------------------------------------------------------
\* Usuario y empresa demo: bootstrap stores the admin only.
SeedUsuariosP003 == [e \in Emails |-> IF e = Admin THEN SeedUsuarios[e] ELSE NoUser]

\* const money = (n) => Number((+n || 0).toFixed(2))
money(v) == NumberOrZero(v)

RECURSIVE SumMoney(_)
SumMoney(items) ==
  IF items = <<>> THEN 0 ELSE money(Head(items)) + SumMoney(Tail(items))

\* pool.connect(), then Datos incompletos.
RecvP003(r, Inputs) ==
  /\ variant = "p003"
  /\ NextSlot(r)
  /\ \E in \in Inputs :
       LET base == [ReqIdle EXCEPT !.who = in.who, !.dni = in.dni, !.email = in.email,
                                   !.fecha = in.fecha, !.items = in.items]
       IN  req' = [req EXCEPT ![r] =
             IF in.dni = "" \/ in.email = "" \/ in.fecha = <<>> \/ in.fecha = Null
                \/ in.items = <<>>
             THEN Release(Answered(Connect(base), "payload"))
             ELSE [Connect(base) EXCEPT !.pc = "user"]]
  /\ UNCHANGED <<variant, arg, out, planillas, detalle, usuarios, counters, historial, lock, commits, peek>>

\* SELECT * FROM v_usuarios_login WHERE lower(email)=lower($1) through the
\* pool: 404 when there is none, 403 when inactive, then the empresa; the
\* finally releases the client on each return.
UserP003(r) ==
  /\ variant = "p003"
  /\ req[r].pc = "user"
  /\ LET u == SelectUsuario(req[r].email)
     IN  req' = [req EXCEPT ![r] =
           IF ~u.ex THEN Release(Answered(@, "nouser"))
           ELSE IF ~u.activo THEN Release(Answered(@, "inactive"))
           ELSE [@ EXCEPT !.pc = "sum", !.u = u]]
  /\ UNCHANGED <<variant, arg, out, planillas, detalle, usuarios, counters, historial, lock, commits, peek>>

\* totalItems, the accumulated query through the pool, the cap; then BEGIN.
CapP003(r) ==
  /\ variant = "p003"
  /\ req[r].pc = "sum"
  /\ LET acc   == SumTotal(SelectRows(historial, req[r].dni, req[r].fecha))
         total == SumMoney(req[r].items)
         seen  == [req[r] EXCEPT !.acc = acc, !.total = total,
                     !.accAt = LedgerSum(commits, req[r].dni, req[r].fecha)]
     IN  req' = [req EXCEPT ![r] =
           IF acc + total > TOPE THEN Release(Answered(seen, "cap"))
           ELSE Begin([seen EXCEPT !.pc = "bump"])]
  /\ UNCHANGED <<variant, arg, out, planillas, detalle, usuarios, counters, historial, lock, commits, peek>>

\* INSERT INTO historial(... items, total): the single row of the submission.
InsertP003(r) ==
  /\ variant = "p003"
  /\ req[r].pc = "ins"
  /\ req' = [req EXCEPT ![r].pc = "commit",
               ![r].pend = Append(@, [sub |-> r, dni |-> req[r].dni, email |-> req[r].email,
                                      fecha |-> req[r].fecha, num |-> pad(req[r].bumped),
                                      items |-> req[r].items, total |-> req[r].total])]
  /\ UNCHANGED <<variant, arg, out, planillas, detalle, usuarios, counters, historial, lock, commits, peek>>

\* ------------------------------------------------------------------------
\* routes/planillas.js, part_012 ("p012"), on the schema of part_008
\* ------------------------------------------------------------------------
\* The names of the two users the schema seeds, and those of the third
\* worker as the admin registers him through PUT /usuarios.
NombresDe(email) ==
  IF email = Admin
  THEN [nombres |-> <<"Y", "R", "V", "I", "N", "G">>, apellidos |-> <<"L", "E", "O", "N">>]
  ELSE IF email = Usuario
  THEN [nombres |-> <<"J", "O", "E", "L">>, apellidos |-> <<"G", "A", "R", "G", "A", "T", "E">>]
  ELSE IF email = Otro
  THEN [nombres |-> <<"Y", "R", "M", "A">>, apellidos |-> <<"L", "E", "A", "L">>]
  ELSE [nombres |-> <<>>, apellidos |-> <<>>]

\* utils.js normalize: str.normalize('NFD') without the combining marks.
normalize(str) == [k \in 1..Len(str) |-> SinAcento(str[k])]

\* s.slice(0, 2)
Slice2(s) == SubSeq(s, 1, IF Len(s) < 2 THEN Len(s) ELSE 2)

\* utils.js serieFromName: two letters of each name, upper case, then 001.
serieFromNameUtils(nombres, apellidos) ==
  ToUpperCase(Slice2(nombres) \o Slice2(apellidos)) \o <<"0", "0", "1">>

\* The names a usuarios row carries, and with it the token signed from it:
\* those PUT /usuarios wrote, or those of the seed in a row never rewritten.
\* A body of PUT /usuarios that spells no names stands for one with the
\* names of NombresDe.
NombresDeUser(u) ==
  IF "nombres" \in DOMAIN u THEN [nombres |-> u.nombres, apellidos |-> u.apellidos]
  ELSE NombresDe(u.email)

\* u is req.user, the payload of the token.
SerieP012(u) ==
  serieFromNameUtils(normalize(NombresDeUser(u).nombres), normalize(NombresDeUser(u).apellidos))

\* requireAuth, getClient(), then fecha y detalles requeridos.  The worker
\* is req.user, the payload u of the token: the dni and email of the body
\* are not read.
ReqP012(u, in) ==
  LET base == [ReqIdle EXCEPT !.who = in.who, !.dni = u.dni, !.email = u.email,
                              !.fecha = in.fecha, !.items = in.items, !.u = u]
  IN  IF ~u.ex THEN Answered(base, "auth")
      ELSE IF in.fecha = <<>> \/ in.fecha = Null \/ in.items = <<>>
      THEN Answered(base, "payload")
      ELSE [base EXCEPT !.pc = "num"]

\* The token is that of a login just made: its payload is the row of in.who.
RecvP012(r, Inputs) ==
  /\ variant = "p012"
  /\ NextSlot(r)
  /\ \E in \in Inputs : req' = [req EXCEPT ![r] = ReqP012(SelectUsuario(in.who), in)]
  /\ UNCHANGED <<variant, arg, out, planillas, detalle, usuarios, counters, historial, lock, commits, peek>>

\* SELECT COALESCE(MAX(num),0)+1 AS next FROM planilla WHERE dni=$1
MaxNumMasUno(rows, dni) ==
  Max({0} \cup {rows[k].num : k \in {j \in 1..Len(rows) : rows[j].dni = dni}}) + 1

NumP012(r) ==
  /\ variant = "p012"
  /\ req[r].pc = "num"
  /\ req' = [req EXCEPT ![r].bumped = MaxNumMasUno(planillas, req[r].dni), ![r].pc = "sum"]
  /\ UNCHANGED <<variant, arg, out, planillas, detalle, usuarios, counters, historial, lock, commits, peek>>

\* total, the accumulated query, the cap, all before BEGIN.
CapP012(r) ==
  /\ variant = "p012"
  /\ req[r].pc = "sum"
  /\ LET acc   == SumTotal(SelectRows(planillas, req[r].dni, req[r].fecha))
         total == SumSeq(MapNumberOr0(req[r].items))
         seen  == [req[r] EXCEPT !.acc = acc, !.total = total,
                     !.accAt = LedgerSum(commits, req[r].dni, req[r].fecha)]
     IN  req' = [req EXCEPT ![r] =
           IF ExcedeTope(acc, total) THEN Answered(seen, "cap") ELSE [seen EXCEPT !.pc = "cab"]]
  /\ UNCHANGED <<variant, arg, out, planillas, detalle, usuarios, counters, historial, lock, commits, peek>>

\* A header with this serie and num is stored, or pending in request o.
CabGuardada(serie, num) ==
  \E k \in 1..Len(planillas) : planillas[k].serie = serie /\ planillas[k].num = num

CabPendiente(o, serie, num) ==
  \E k \in 1..Len(req[o].pend) : req[o].pend[k].serie = serie /\ req[o].pend[k].num = num

\* BEGIN; INSERT INTO planilla ... RETURNING id under UNIQUE (serie, num):
\* it fails on a stored header with the same key (catch, ROLLBACK, 500) and
\* waits while another transaction holds an uncommitted one.
CabP012(r) ==
  /\ variant = "p012"
  /\ req[r].pc = "cab"
  /\ LET serie == SerieP012(req[r].u)
     IN  /\ \A o \in DOMAIN req : o # r => ~CabPendiente(o, serie, req[r].bumped)
         /\ req' = [req EXCEPT ![r] =
              IF CabGuardada(serie, req[r].bumped) THEN Answered(@, "error")
              ELSE [@ EXCEPT !.pc = "ins", !.i = 1,
                      !.pend = <<[sub |-> r, serie |-> serie, num |-> req[r].bumped,
                                  fecha |-> req[r].fecha, dni |-> req[r].dni,
                                  email |-> req[r].email, total |-> req[r].total,
                                  det |-> <<>>]>>]]
  /\ UNCHANGED <<variant, arg, out, planillas, detalle, usuarios, counters, historial, lock, commits, peek>>

\* One turn of the loop: INSERT INTO planilla_detalle with Number(d.monto || 0).
DetP012(r) ==
  /\ variant = "p012"
  /\ req[r].pc = "ins"
  /\ req' = [req EXCEPT
       ![r].pend[1].det = Append(@, [monto |-> NumberOr0(req[r].items[req[r].i])]),
       ![r].i = @ + 1,
       ![r].pc = IF req[r].i >= Len(req[r].items) THEN "commit" ELSE "ins"]
  /\ UNCHANGED <<variant, arg, out, planillas, detalle, usuarios, counters, historial, lock, commits, peek>>

\* COMMIT: the header and its rows become visible; res.json({serie, num, total}).
CommitP012(r) ==
  /\ variant = "p012"
  /\ req[r].pc = "commit"
  /\ LET cab == req[r].pend[1]
         pid == Len(planillas) + 1
     IN  /\ planillas' = Append(planillas,
              [id |-> pid, sub |-> r, serie |-> cab.serie, num |-> cab.num, fecha |-> cab.fecha,
               dni |-> cab.dni, email |-> cab.email, total |-> cab.total])
         /\ detalle' = detalle \o [k \in 1..Len(cab.det) |->
                                     [planilla_id |-> pid, monto |-> cab.det[k].monto]]
         /\ commits' = Append(commits, [sub |-> r, dni |-> cab.dni, fecha |-> cab.fecha,
                                        num |-> cab.num, total |-> cab.total])
  /\ req' = [req EXCEPT ![r] = Answered(@, "ok")]
  /\ UNCHANGED <<variant, arg, out, usuarios, counters, historial, lock, peek>>

\* A statement after BEGIN throws: ROLLBACK, 500, release.
FailP012(r) ==
  /\ variant = "p012"
  /\ req[r].pc \in {"cab", "ins", "commit"}
  /\ req' = [req EXCEPT ![r] = Answered(@, "error")]
  /\ UNCHANGED <<variant, arg, out, planillas, detalle, usuarios, counters, historial, lock, commits, peek>>

\* ------------------------------------------------------------------------
\* GET /api/acumulado of server.js ("js"), of p003 and of p012
\* ------------------------------------------------------------------------
\* Faulty variant: the query also sees the rows of transactions still open.
RECURSIVE PendingRows(_)
PendingRows(S) ==
  IF S = {} THEN <<>>
  ELSE LET o == CHOOSE x \in S : TRUE IN req[o].pend \o PendingRows(S \ {o})

AcumuladoSucio(v, dni, fecha) ==
  LET rows == SelectRows((IF v = "p012" THEN planillas ELSE historial)
                           \o PendingRows(DOMAIN req), dni, fecha)
  IN  IF v = "js" THEN SumMaxByNum(rows) ELSE SumTotal(rows)

\* The value of the accumulated query over the committed rows: SUM of
\* MAX(total) per num in server.js, SUM(total) of historial in p003, SUM(total)
\* of planilla in p012.
AcumuladoLeido(v, dni, fecha) ==
  LET rows == SelectRows(IF v = "p012" THEN planillas ELSE historial, dni, fecha)
  IN  IF v = "js" THEN SumMaxByNum(rows) ELSE SumTotal(rows)

\* GET /api/acumulado?dni=&fecha=: p012 answers 403 to a user who is no admin
\* asking for another dni; arg keeps the answer before this one.
GetAcumulado(Ds, Fs) ==
  \E who \in Emails, d \in Ds, f \in Fs :
    /\ variant \in {"js", "p003", "p012"}
    /\ variant = "p012" => SelectUsuario(who).ex
    /\ arg' = out
    /\ out' = IF variant = "p012" /\ ~IsAdminRol(SelectUsuario(who).rol)
                 /\ d # SelectUsuario(who).dni
              THEN [res |-> "forbidden", dni |-> d, fecha |-> f, valor |-> 0,
                    at |-> Len(commits)]
              ELSE [res |-> "ok", dni |-> d, fecha |-> f,
                    valor |-> AcumuladoLeido(variant, d, f), at |-> Len(commits)]
    /\ UNCHANGED <<variant, planillas, detalle, usuarios, counters, historial, req, lock, commits, peek>>

InputsAcum ==
  {Input(Admin, DniAdmin, Admin, F10, <<M20>>),
   Input(Admin, DniAdmin, Admin, F10, <<M20, M25>>),
   Input(Usuario, DniUsuario, Usuario, F10, <<M30>>)}

RecvAcum(r) ==
  IF variant = "js" THEN RecvDet(r, InputsAcum)
  ELSE IF variant = "p003" THEN RecvP003(r, InputsAcum)
  ELSE RecvP012(r, InputsAcum)

GetAcumuladoAcum == GetAcumulado({DniAdmin, DniUsuario}, {F10})

InitAcum ==
  /\ variant \in {"js", "p003", "p012"}
  /\ usuarios = IF variant = "p003" THEN SeedUsuariosP003 ELSE SeedUsuarios
  /\ InitTables(NReq)

NextAcum ==
  \/ \E r \in DOMAIN req :
       \/ RecvAcum(r)
       \/ LookupByDni(r)
       \/ variant = "js" /\ CapDet(r)
       \/ ReadCounter(r)
       \/ WriteCounter(r)
       \/ InsertDetalle(r)
       \/ UserP003(r)
       \/ CapP003(r)
       \/ variant = "p003" /\ Bump(r)
       \/ InsertP003(r)
       \/ variant \in {"js", "p003"} /\ Commit(r)
       \/ variant = "p003" /\ Fail(r)
       \/ NumP012(r)
       \/ CapP012(r)
       \/ CabP012(r)
       \/ DetP012(r)
       \/ CommitP012(r)
       \/ FailP012(r)
  \/ GetAcumuladoAcum

SpecAcum == InitAcum /\ [][NextAcum]_vars

\* C19 (the accumulated-total read changes nothing): two calls of GET
\* /api/acumulado with the same dni and fecha and no committed submission
\* in between return the same value, and a call alters neither the
\* historial or planilla rows nor the counters.
AcumuladoReadOnly ==
  /\ []((arg # <<>> /\ out # <<>>) =>
          ((arg.res = "ok" /\ out.res = "ok" /\ arg.dni = out.dni /\ arg.fecha = out.fecha
            /\ arg.at = out.at) => arg.valor = out.valor))
  /\ [][out' # out => (/\ historial' = historial /\ planillas' = planillas
                       /\ detalle' = detalle /\ counters' = counters)]_vars

\* Two calls for one dni and day with no commit in between, after a
\* submission of that dni and day was stored and while another is open.
AcumuladoWitness ==
  /\ arg # <<>> /\ out # <<>>
  /\ arg.res = "ok" /\ out.res = "ok" /\ arg.dni = out.dni /\ arg.fecha = out.fecha
  /\ arg.at = out.at /\ out.valor > 0
  /\ \E r \in DOMAIN req : req[r].pend # <<>> /\ req[r].dni = out.dni

\* ------------------------------------------------------------------------
\* The v4 of part_007: a handler that throws after BEGIN
\* ------------------------------------------------------------------------
\* The client request o took is back in the pool, idle, its transaction
\* still open with the writes of o.
Zombie(o) ==
  /\ variant = "v4"
  /\ req[o].pc = "done" /\ req[o].res = "error"
  /\ \/ req[o].pend # <<>>
     \/ req[o].cnt # NoRow
     \/ \E d \in DNIs : req[o].inh[d] # NoRow

\* const client = await pool.connect(): a fresh client (z = 0) or an idle
\* one; the checks before BEGIN; BEGIN, which on a client whose transaction
\* is open only raises a warning, so the handler goes on inside it.
RecvV4(r, Inputs) ==
  /\ variant = "v4"
  /\ NextSlot(r)
  /\ \E in \in Inputs, z \in {0} \cup {o \in DOMAIN req : Zombie(o)} :
       LET base == [ReqIdle EXCEPT !.who = in.who, !.dni = in.dni, !.email = in.email,
                                   !.fecha = in.fecha, !.items = in.items,
                                   !.dest = in.dest]
       IN  IF BadPayload(variant, in)
           THEN /\ req' = [req EXCEPT ![r] = Release(Answered(Connect(base), "payload"))]
                /\ UNCHANGED lock
           ELSE IF z = 0
           THEN /\ req' = [req EXCEPT ![r] = [Connect(base) EXCEPT !.pc = "tx"]]
                /\ UNCHANGED lock
           ELSE /\ req' = [req EXCEPT
                     ![r] = [Begin(Connect(base)) EXCEPT !.pc = "tx", !.pend = req[z].pend,
                               !.inh = [d \in DNIs |->
                                          IF d = req[z].dni /\ req[z].cnt # NoRow
                                          THEN req[z].cnt ELSE req[z].inh[d]]],
                     ![z] = Answered(@, "error")]
                /\ lock' = [d \in DNIs |-> IF lock[d] = z THEN r ELSE lock[d]]
  /\ UNCHANGED <<variant, arg, out, planillas, detalle, usuarios, counters, historial, commits, peek>>

\* norm throws in the insert loop.  catch: await q('ROLLBACK') runs on a
\* client of the pool, a fresh one (z = 0) or an idle one, never on the
\* client of this request, which is still checked out; answer 400;
\* finally: client.release() with the transaction open.
ThrowV4(r) ==
  /\ variant = "v4"
  /\ NormThrows(r)
  /\ \E z \in {0} \cup {o \in DOMAIN req : Zombie(o)} :
       /\ req' = [o \in DOMAIN req |->
                    IF o = r THEN Release([req[r] EXCEPT !.pc = "done", !.res = "error"])
                    ELSE IF o = z THEN Answered(req[o], "error")
                    ELSE req[o]]
       /\ lock' = [d \in DNIs |-> IF z # 0 /\ lock[d] = z THEN 0 ELSE lock[d]]
  /\ UNCHANGED <<variant, arg, out, planillas, detalle, usuarios, counters, historial, commits, peek>>

InputsV4 ==
  {[Input("", DniUsuario, Usuario, F10, <<M20, M25>>) EXCEPT !.dest = <<"", "num">>],
   Input("", DniUsuario, Usuario, F10, <<M20>>),
   Input("", DniUsuario, Usuario, F10, <<M30>>),
   Input("", DniAdmin, Admin, F10, <<M30>>),
   Input("", DniUsuario, Otro, F10, <<M20>>),
   Input("", DniUsuario, Usuario, F10, <<>>)}

RecvV4Conc(r) == RecvV4(r, InputsV4)

InitV4 == variant = "v4" /\ InitDb(NReq)

NextV4 ==
  \E r \in DOMAIN req :
    \/ RecvV4Conc(r)
    \/ SelectU(r)
    \/ CapCheck(r)
    \/ Bump(r)
    \/ InsertItem(r)
    \/ ThrowV4(r)
    \/ Commit(r)

SpecV4 == InitV4 /\ [][NextV4]_vars

\* C20 (v4, failure after BEGIN): the transaction of a failed submission is
\* rolled back before its client goes back to the pool, so its writes are
\* never committed later: no stored row belongs to a submission answered
\* with an error, and the counter of a dni counts its accepted submissions
\* only (the first one holding 0).
FailedNeverCommitted ==
  /\ \A k \in 1..Len(historial) : req[historial[k].sub].res # "error"
  /\ \A d \in DNIs :
       counters[d] = IF CommitsOf(commits, d) = <<>> THEN NoRow
                     ELSE Len(CommitsOf(commits, d)) - 1

\* ------------------------------------------------------------------------
\* server.js, part_004 and p001: the insertion of the rows fails part-way
\* ------------------------------------------------------------------------
\* server.js: a client.query of the insert loop, or COMMIT, throws: catch,
\* ROLLBACK on the client, 500.  The counter was written through the pool
\* before BEGIN and is no part of the transaction.
FailInsertJs(r) ==
  /\ variant = "js"
  /\ req[r].pc \in {"ins", "commit"}
  /\ Fail(r)

\* part_004: a q() of the insert loop throws: catch, 500.  No statement of
\* the handler is undone, each was committed when it ran.
FailAuto(r) ==
  /\ Autocommit(variant)
  /\ req[r].pc = "ins"
  /\ req' = [req EXCEPT ![r] = Answered(@, "error")]
  /\ UNCHANGED <<variant, arg, out, planillas, detalle, usuarios, counters, historial, lock, commits, peek>>

\* p001: the handler passes its checks, bumps the counter and stores the
\* header; the fallback loop throws at item k, after k - 1 items: catch, 500.
PostP001Falla(r, Inputs) ==
  /\ variant = "p001"
  /\ NextSlot(r)
  /\ \E in \in Inputs :
       LET base  == [ReqIdle EXCEPT !.who = in.who, !.dni = in.dni, !.email = in.email,
                                    !.fecha = in.fecha, !.items = in.items]
           u     == SelectUsuario(in.email)
           acum  == SumItemsJoin(planillas, detalle, in.dni, in.fecha)
           ms    == MapNumberOr0(in.items)
           total == SumSeq(ms)
           num   == IF counters[in.dni] = NoRow THEN 1 ELSE counters[in.dni] + 1
           pid   == Len(planillas) + 1
       IN  /\ in.dni # "" /\ in.email # "" /\ in.fecha # <<>> /\ in.fecha # Null
           /\ in.items # <<>>
           /\ u.ex /\ u.activo
           /\ ~SuperaTope(acum, total)
           /\ \E k \in 1..Len(ms) :
                /\ counters' = [counters EXCEPT ![in.dni] = num]
                /\ planillas' = Append(planillas,
                                  [id |-> pid, dni |-> in.dni, email |-> in.email,
                                   fecha |-> in.fecha, num |-> num, total |-> total])
                /\ detalle' = detalle \o ItemRows(pid, SubSeq(ms, 1, k - 1))
                /\ req' = [req EXCEPT ![r] =
                             Answered([base EXCEPT !.u = u, !.acc = acum, !.total = total,
                                                   !.bumped = num, !.i = k], "error")]
  /\ UNCHANGED <<variant, arg, out, usuarios, historial, lock, commits, peek>>

InputsPartial(v) ==
  LET d == IF v = "p001" THEN DniUsuarioP001 ELSE DniUsuario
  IN  {Input(Usuario, d, Usuario, F10, <<M20, M15c50>>),
       Input(Usuario, d, Usuario, F11, <<M20>>),
       Input(Admin, DniAdmin, Admin, F10, <<M30>>)}

RecvPartial(r) ==
  /\ \A o \in DOMAIN req : ~InFlight(o)
  /\ \/ variant = "js" /\ RecvDet(r, InputsPartial(variant))
     \/ variant = "p004" /\ Recv(r, InputsPartial(variant))

PostP001Partial(r) == PostP001(r, InputsPartial(variant))

PostP001FallaPartial(r) == PostP001Falla(r, InputsPartial(variant))

InitPartial ==
  /\ variant \in {"js", "p004", "p001"}
  /\ InitTables(NSeq)
  /\ usuarios = IF variant = "p001" THEN SeedUsuariosP001 ELSE SeedUsuarios

NextPartial ==
  \E r \in DOMAIN req :
    \/ RecvPartial(r)
    \/ LookupByDni(r)
    \/ variant = "js" /\ CapDet(r)
    \/ ReadCounter(r)
    \/ WriteCounter(r)
    \/ InsertDetalle(r)
    \/ FailInsertJs(r)
    \/ variant = "p004" /\ SelectU(r)
    \/ variant = "p004" /\ CapCheck(r)
    \/ BumpAuto(r)
    \/ InsertAuto(r)
    \/ FailAuto(r)
    \/ variant \in {"js", "p004"} /\ Commit(r)
    \/ PostP001Partial(r)
    \/ PostP001FallaPartial(r)

SpecPartial == InitPartial /\ [][NextPartial]_vars

\* The counter of a dni that has k accepted submissions and lost nothing
\* to a failed one: no row when k = 0, else the first n of the server and
\* one more for each further submission.
CounterAfter(v, k) == IF k = 0 THEN NoRow ELSE FirstN(v) + k - 1

\* C21 (failure while inserting): with requests one at a time, a request
\* whose insertion of rows failed part-way leaves no row of its submission
\* (historial row, planillas header or item) behind, and once it has
\* answered the counter of its dni holds what it held before the request,
\* that is the value the accepted submissions of the dni account for.
PartialFailureUndone ==
  /\ \A r \in DOMAIN req :
       req[r].res = "error" =>
         /\ \A k \in 1..Len(historial) : historial[k].sub # r
         /\ \A k \in 1..Len(planillas) :
              ~(planillas[k].dni = req[r].dni /\ planillas[k].num = req[r].bumped)
  /\ (\A o \in DOMAIN req : ~InFlight(o)) =>
       \A d \in DNIs : counters[d] = CounterAfter(variant, Len(CommitsOf(commits, d)))

\* ------------------------------------------------------------------------
\* p012: workers whose names give the same serie
\* ------------------------------------------------------------------------
\* routes/admin.js, PUT /usuarios by the admin, one element of the list:
\* the upsert by email, committed with the list.
PutUsuariosP012(Us) ==
  \E who \in Emails, u \in Us :
    /\ variant = "p012"
    /\ SelectUsuario(who).ex /\ IsAdminRol(SelectUsuario(who).rol)
    /\ \A e \in Emails \ {u.email} : ~(usuarios[e].ex /\ usuarios[e].dni = u.dni)
    /\ usuarios' = [usuarios EXCEPT ![u.email] =
                      [ex |-> TRUE, email |-> u.email, dni |-> u.dni,
                       activo |-> u.activo, rol |-> u.rol,
                       nombres |-> ToUpperCase(NombresDeUser(u).nombres),
                       apellidos |-> ToUpperCase(NombresDeUser(u).apellidos)]]
    /\ UNCHANGED <<variant, arg, out, planillas, detalle, counters, historial, req, lock, commits, peek>>

InputsHomonimos ==
  {Input(Admin, "", "", F10, <<M20>>),
   Input(Otro, "", "", F10, <<M20>>),
   Input(Otro, "", "", F10, <<M30>>),
   Input(Usuario, "", "", F11, <<M25>>),
   Input(Usuario, "", "", F11, <<>>)}

RecvHomonimos(r) ==
  /\ \A o \in DOMAIN req : ~InFlight(o)
  /\ RecvP012(r, InputsHomonimos)

PutUsuariosHomonimos == PutUsuariosP012({NuevoOtro})

InitHomonimos == variant = "p012" /\ InitDb(NSeq)

NextHomonimos ==
  \/ \E r \in DOMAIN req :
       \/ RecvHomonimos(r)
       \/ NumP012(r)
       \/ CapP012(r)
       \/ CabP012(r)
       \/ DetP012(r)
       \/ CommitP012(r)
  \/ PutUsuariosHomonimos

SpecHomonimos == InitHomonimos /\ [][NextHomonimos]_vars

\* The position of the submission of request r among the accepted ones of
\* its dni, 0 when it is not among them.
PuestoDe(r) ==
  LET cs == CommitsOf(commits, req[r].dni)
  IN  IF \E k \in 1..Len(cs) : cs[k].sub = r
      THEN CHOOSE k \in 1..Len(cs) : cs[k].sub = r
      ELSE 0

\* C22 (workers do not interfere): with requests one at a time and no
\* storage fault, a submission that passed the token and body checks is
\* either accepted or rejected for the cap of its own worker and day; an
\* accepted one carries the next number of the sequence of its own dni,
\* whatever is stored for other workers, also for one with the same serie.
OtherWorkersNeverBlock ==
  \A r \in DOMAIN req :
    (req[r].pc = "done" /\ req[r].res \notin {"auth", "payload"}) =>
      /\ req[r].res \in {"ok", "cap"}
      /\ req[r].res = "cap" => req[r].accAt + req[r].total > TOPE
      /\ req[r].res = "ok" => req[r].bumped = PuestoDe(r)

\* ------------------------------------------------------------------------
\* part_004, v3 and v4: GET /api/counters/next between submissions
\* ------------------------------------------------------------------------
\* INSERT INTO counters (dni,n) VALUES ($1,0) ON CONFLICT (dni) DO UPDATE
\* SET n=counters.n+1 RETURNING n, through the pool and committed at once;
\* it waits for a transaction that holds the row.  The answer is pad(n).
CountersNextUpsert(Ds) ==
  \E d \in Ds :
    /\ variant \in {"p004", "v3", "v4"}
    /\ lock[d] = 0
    /\ counters[d] = NoRow \/ counters[d] < MaxNext
    /\ LET n == IF counters[d] = NoRow THEN 0 ELSE counters[d] + 1
       IN  /\ counters' = [counters EXCEPT ![d] = n]
           /\ peek' = [dni |-> d, next |-> pad(n), at |-> Len(CommitsOf(commits, d))]
    /\ UNCHANGED <<variant, arg, out, planillas, detalle, usuarios, historial, req, lock, commits>>

InputsGap ==
  {Input("", DniUsuario, Usuario, F10, <<M20>>),
   Input("", DniUsuario, Usuario, F11, <<M20, M25>>),
   Input("", DniAdmin, Admin, F10, <<M30>>),
   Input("", DniUsuario, Usuario, F10, <<>>)}

RecvGap(r) ==
  /\ \A o \in DOMAIN req : ~InFlight(o)
  /\ Recv(r, InputsGap)

CountersNextGap == CountersNextUpsert({DniUsuario})

InitGap == variant \in {"p004", "v3", "v4"} /\ InitDb(NSeq)

NextGap ==
  \/ \E r \in DOMAIN req :
       \/ RecvGap(r)
       \/ SelectU(r)
       \/ CapCheck(r)
       \/ Bump(r)
       \/ BumpAuto(r)
       \/ InsertItem(r)
       \/ InsertAuto(r)
       \/ Commit(r)
  \/ CountersNextGap

SpecGap == InitGap /\ [][NextGap]_vars

\* C23 (asking for the next number changes no number): with requests one
\* at a time and GET /api/counters/next called in between, the voucher
\* numbers of the accepted submissions of a dni, in the order they were
\* accepted, go up by one: they form a contiguous set.
PeekKeepsContiguous ==
  \A d \in DNIs :
    LET cs == CommitsOf(commits, d)
    IN  \A i \in 1..(Len(cs) - 1) : cs[i + 1].num = cs[i].num + 1

\* ------------------------------------------------------------------------
\* p002: POST /api/usuarios/save moves the counter when the DNI changes
\* ------------------------------------------------------------------------
\* One element u of the list, taken while no submission is in progress: the
\* user found by email is updated; if the DNI changed, SELECT seq of the old
\* DNI (0 when it has no row), INSERT INTO counters(dni,seq) VALUES(new,
\* seqPrev) ON CONFLICT (dni) DO NOTHING, DELETE the old row.  A user that
\* is not found is inserted with a counters row of 0, DO NOTHING likewise.
\* A DNI held by another user breaks UNIQUE and the whole list rolls back.
UsuariosSaveP002(Us) ==
  \E u \in Us :
    /\ variant = "p002"
    /\ \A o \in DOMAIN req : ~InFlight(o)
    /\ \A e \in Emails \ {u.email} : ~(usuarios[e].ex /\ usuarios[e].dni = u.dni)
    /\ usuarios' = [usuarios EXCEPT ![u.email] =
                      [ex |-> TRUE, email |-> u.email, dni |-> u.dni,
                       activo |-> u.activo, rol |-> u.rol]]
    /\ LET prevDni == usuarios[u.email].dni
           seqPrev == IF counters[prevDni] = NoRow THEN 0 ELSE counters[prevDni]
       IN  counters' =
             IF ~usuarios[u.email].ex
             THEN [counters EXCEPT ![u.dni] = IF @ = NoRow THEN 0 ELSE @]
             ELSE IF prevDni = u.dni THEN counters
             ELSE [d \in DNIs |->
                     IF d = prevDni THEN NoRow
                     ELSE IF d = u.dni /\ counters[d] = NoRow THEN seqPrev
                     ELSE counters[d]]
    /\ UNCHANGED <<variant, arg, out, planillas, detalle, historial, req, lock, commits, peek>>

\* The worker of the seed with a new DNI.
CambioDni == [email |-> Usuario, dni |-> DniOtro, activo |-> TRUE, rol |-> "USUARIO"]

InputsMove ==
  {Input("", DniUsuario, Usuario, F10, <<M20>>),
   Input("", DniUsuario, Usuario, F11, <<M20>>),
   Input("", DniOtro, Usuario, F10, <<M25>>),
   Input("", DniUsuario, Usuario, F10, <<>>)}

RecvMove(r) ==
  /\ \A o \in DOMAIN req : ~InFlight(o)
  /\ RecvDet(r, InputsMove)

UsuariosSaveMove == UsuariosSaveP002({CambioDni, BajaUsuario, NuevoOtro})

CountersNextMove == CountersNextP002({DniOtro})

InitMove == variant = "p002" /\ InitDb(NSeq)

NextMove ==
  \/ \E r \in DOMAIN req :
       \/ RecvMove(r)
       \/ CapDet(r)
       \/ EnsureCounter(r)
       \/ ReadCounter(r)
       \/ WriteCounter(r)
       \/ InsertDetalle(r)
       \/ Commit(r)
  \/ UsuariosSaveMove
  \/ CountersNextMove

SpecMove == InitMove /\ [][NextMove]_vars

\* C24 (the counter follows the DNI): in every step of POST
\* /api/usuarios/save that changes the DNI of an existing user, the counters
\* row of the new DNI afterwards holds the value the old DNI had (0 when it
\* had no row) and the old DNI has no row, whether or not the new DNI had a
\* counters row before.
CounterMovesWithDni ==
  [][\A e \in Emails :
       (usuarios[e].ex /\ usuarios'[e].ex /\ usuarios'[e].dni # usuarios[e].dni) =>
         /\ counters'[usuarios'[e].dni] =
              (IF counters[usuarios[e].dni] = NoRow THEN 0 ELSE counters[usuarios[e].dni])
         /\ counters'[usuarios[e].dni] = NoRow]_vars

\* ------------------------------------------------------------------------
\* server.cjs and v9: the pooled client of POST /api/planillas
\* ------------------------------------------------------------------------
InputsPool ==
  {Input(Usuario, DniUsuario, Usuario, F10, <<M30>>),
   Input(Usuario, DniUsuario, Usuario, F10, <<M20>>),
   Input(Usuario, DniAdmin, Admin, F10, <<M20>>),
   Input(Admin, DniOtro, Otro, F10, <<M20>>),
   Input(Otro, DniOtro, Otro, F10, <<M20>>),
   Input(Usuario, DniUsuario, Usuario, F10, <<>>),
   [Input(Usuario, DniUsuario, Usuario, F11, <<M20>>) EXCEPT !.dest = <<"num">>]}

RecvPool(r) ==
  /\ \A o \in DOMAIN req : ~InFlight(o)
  /\ Recv(r, InputsPool)

InitPool == variant \in {"v7", "v9"} /\ InitDb(NSeq)

NextPool ==
  \E r \in DOMAIN req :
    \/ RecvPool(r)
    \/ SelectU(r)
    \/ CapCheck(r)
    \/ Bump(r)
    \/ InsertItem(r)
    \/ Commit(r)
    \/ Fail(r)

SpecPool == InitPool /\ [][NextPool]_vars

\* C25 (the pooled client): a handler that got past the middleware took
\* exactly one client; while it runs it has not released it; when it has
\* answered, on whatever path, it has released it exactly once; and no
\* release ever happened with the client's transaction open.
ClientReleasedOnce ==
  \A r \in DOMAIN req :
    /\ ~req[r].relTx
    /\ InFlight(r) => (req[r].acq = 1 /\ req[r].rel = 0)
    /\ (req[r].pc = "done" /\ req[r].res # "auth") => (req[r].acq = 1 /\ req[r].rel = 1)
    /\ (req[r].pc = "done" /\ req[r].res = "auth") => (req[r].acq = 0 /\ req[r].rel = 0)

\* Three handlers have answered, each having released its client once: one
\* accepted, one rejected for the cap after ROLLBACK, and one that threw.
ClientReleasedWitness ==
  \E a, b, c \in DOMAIN req :
    /\ req[a].res = "ok" /\ req[a].rel = 1
    /\ req[b].res = "cap" /\ req[b].rel = 1
    /\ req[c].res = "error" /\ req[c].rel = 1 /\ req[c].dest # <<>>

\* ------------------------------------------------------------------------
\* p003: the pool, with as many requests as it has connections
\* ------------------------------------------------------------------------
\* The number of connections of the pool: that of the requests at hand.
PoolSize == Cardinality(DOMAIN req)

\* Request r holds a client it took with pool.connect().
Held(r) == req[r].acq > req[r].rel

\* Connections no handler holds; a pool.query takes one for its statement
\* and gives it back.
PoolFree == PoolSize - Cardinality({r \in DOMAIN req : Held(r)})

InputsStarve ==
  {Input("", DniAdmin, Admin, F10, <<M20>>),
   Input("", DniAdmin, Admin, F10, <<M30>>),
   Input("", DniAdmin, Admin, F11, <<M20, M25>>),
   Input("", DniOtro, Otro, F10, <<M20>>),
   Input("", DniAdmin, Admin, F10, <<>>)}

\* pool.connect() resolves once a connection is free.
RecvStarve(r) == PoolFree > 0 /\ RecvP003(r, InputsStarve)

\* one(...) is pool.query: it resolves once a connection is free.
UserP003Pool(r) == PoolFree > 0 /\ UserP003(r)

CapP003Pool(r) == PoolFree > 0 /\ CapP003(r)

InitStarve == variant = "p003" /\ usuarios = SeedUsuariosP003 /\ InitTables(NReq)

NextStarve ==
  \E r \in DOMAIN req :
    \/ RecvStarve(r)
    \/ UserP003Pool(r)
    \/ CapP003Pool(r)
    \/ variant = "p003" /\ Bump(r)
    \/ InsertP003(r)
    \/ variant = "p003" /\ Commit(r)

\* Every step the handlers can take is eventually taken.
SpecStarve == InitStarve /\ [][NextStarve]_vars /\ WF_vars(NextStarve)

\* Every handler in progress holds a client and waits for a pool.query
\* while the pool has no connection left.
PoolStuck ==
  /\ \E r \in DOMAIN req : InFlight(r)
  /\ PoolFree = 0
  /\ \A r \in DOMAIN req : InFlight(r) => req[r].pc \in {"user", "sum"}

\* C26 (no starvation of the pool): with as many concurrent requests as
\* the pool has connections, the handlers are never all waiting for a
\* connection while each holds one, and every request that arrived is
\* eventually answered.
EveryRequestAnswered ==
  /\ [](~PoolStuck)
  /\ \A r \in 1..NReq : [](InFlight(r) => <>(req[r].pc = "done"))

\* ------------------------------------------------------------------------
\* v8 and v9: the dni of the body and the worker of the email
\* ------------------------------------------------------------------------
InputsPair ==
  {Input("", DniUsuario, Usuario, F10, <<M20>>),
   Input("", DniAdmin, Admin, F10, <<M30>>),
   Input("", DniAdmin, Usuario, F10, <<M30>>),
   Input("", DniOtro, Usuario, F10, <<M25>>),
   Input("", DniOtro, Otro, F10, <<M20>>)}

RecvPair(r) == Recv(r, InputsPair)

InitPair == variant \in {"v8", "v9"} /\ InitDb(NReq)

NextPair ==
  \E r \in DOMAIN req :
    \/ RecvPair(r)
    \/ SelectU(r)
    \/ CapCheck(r)
    \/ Bump(r)
    \/ InsertItem(r)
    \/ Commit(r)

SpecPair == InitPair /\ [][NextPair]_vars

\* C27 (the dni is the worker's): every accepted request carried the dni of
\* the user its email resolves to, so the accumulator it was checked
\* against, the counter it bumped and the rows it stored are those of that
\* worker: every stored row pairs an email with the dni of its user, and
\* only the dni of a user has a counters row.
DniIsOfEmail ==
  /\ \A r \in DOMAIN req : req[r].res = "ok" => req[r].dni = req[r].u.dni
  /\ \A k \in 1..Len(historial) :
       historial[k].dni = SelectUsuario(historial[k].email).dni
  /\ \A d \in DNIs :
       counters[d] # NoRow => \E e \in Emails : usuarios[e].ex /\ usuarios[e].dni = d

\* ------------------------------------------------------------------------
\* server.cjs: one day written in several ways
\* ------------------------------------------------------------------------
\* 10 January 2024 with the month in one digit, day first and year first.
F10corta == <<"1", "0", "/", "1", "/", "2", "0", "2", "4">>
F10guion == <<"2", "0", "2", "4", "-", "1", "-", "1", "0">>

InputsFecha ==
  {Input(Usuario, DniUsuario, Usuario, F10, <<M30>>),
   Input(Usuario, DniUsuario, Usuario, F10dmy, <<M20>>),
   Input(Usuario, DniUsuario, Usuario, F10corta, <<M30>>),
   Input(Usuario, DniUsuario, Usuario, F10guion, <<M25>>),
   Input(Usuario, DniUsuario, Usuario, F11, <<M20>>)}

RecvFecha(r) ==
  /\ \A o \in DOMAIN req : ~InFlight(o)
  /\ Recv(r, InputsFecha)

InitFecha == variant = "v7" /\ InitDb(NSeq)

NextFecha ==
  \E r \in DOMAIN req :
    \/ RecvFecha(r)
    \/ SelectU(r)
    \/ CapCheck(r)
    \/ Bump(r)
    \/ InsertItem(r)
    \/ Commit(r)

SpecFecha == InitFecha /\ [][NextFecha]_vars

\* The calendar day a fecha text denotes, <<year, month, day>>: three
\* numbers separated by "/" or "-", the year first when the first number
\* has four digits; <<0, 0, 0>> for a text of another shape.
DiaDe(f) ==
  LET s    == IF f = Null THEN <<>> ELSE Trim(f)
      seps == {k \in 1..Len(s) : s[k] \in {"/", "-"}}
  IN  IF Cardinality(seps) # 2 THEN <<0, 0, 0>>
      ELSE LET p1 == CHOOSE k \in seps : \A j \in seps : k <= j
               p2 == CHOOSE k \in seps : \A j \in seps : j <= k
           IN  IF \/ p1 = 1 \/ p2 = p1 + 1 \/ p2 = Len(s)
                  \/ \E k \in (1..Len(s)) \ seps : s[k] \notin Digits
               THEN <<0, 0, 0>>
               ELSE LET a == IntVal(s, 1, p1)
                        b == IntVal(s, p1 + 1, p2)
                        c == IntVal(s, p2 + 1, Len(s) + 1)
                    IN  IF p1 = 5 THEN <<a, b, c>> ELSE <<c, b, a>>

\* Totals of the accepted submissions of a dni on a calendar day.
RECURSIVE LedgerSumDia(_, _, _)
LedgerSumDia(led, dni, dia) ==
  IF led = <<>> THEN 0
  ELSE (IF Head(led).dni = dni /\ DiaDe(Head(led).fecha) = dia THEN Head(led).total ELSE 0)
         + LedgerSumDia(Tail(led), dni, dia)

\* C28 (one key per day): requests of one dni whose fecha texts denote the
\* same calendar day are checked against the same accumulator: the amount
\* a request was checked against is the total accepted so far for its dni
\* on its calendar day, and the accepted totals of a dni on a calendar day
\* never exceed TOPE, however the date was written.
OneKeyPerDay ==
  /\ \A k \in 1..Len(commits) :
       req[commits[k].sub].acc =
         LedgerSumDia(SubSeq(commits, 1, k - 1), commits[k].dni, DiaDe(commits[k].fecha))
  /\ \A i \in 1..Len(commits) :
       LedgerSumDia(commits, commits[i].dni, DiaDe(commits[i].fecha)) <= TOPE

\* ------------------------------------------------------------------------
\* p002: submissions whose items are not all positive
\* ------------------------------------------------------------------------
InputsSkip ==
  {Input("", DniUsuario, Usuario, F10, <<M20>>),
   Input("", DniUsuario, Usuario, F10, <<MCero>>),
   Input("", DniUsuario, Usuario, F10, <<M20, MNeg3>>),
   Input("", DniUsuario, Usuario, F11, <<M15c50, MCero>>),
   Input("", DniAdmin, Admin, F10, <<M25>>)}

RecvSkip(r) ==
  /\ \A o \in DOMAIN req : ~InFlight(o)
  /\ RecvDet(r, InputsSkip)

InitSkip == variant = "p002" /\ InitDb(NSeq)

NextSkip ==
  \E r \in DOMAIN req :
    \/ RecvSkip(r)
    \/ CapDet(r)
    \/ EnsureCounter(r)
    \/ ReadCounter(r)
    \/ WriteCounter(r)
    \/ InsertDetalle(r)
    \/ Commit(r)

SpecSkip == InitSkip /\ [][NextSkip]_vars

\* The sum of the monto of the stored rows of one submission.
RECURSIVE MontoDeSub(_, _)
MontoDeSub(rows, s) ==
  IF rows = <<>> THEN 0
  ELSE (IF Head(rows).sub = s THEN Head(rows).monto ELSE 0) + MontoDeSub(Tail(rows), s)

\* C29 (no number without rows): every committed submission has at least
\* one stored row carrying its number, and its total is the sum of the monto
\* of the rows it stored.
NumberCarriesRows ==
  \A k \in 1..Len(commits) :
    /\ \E i \in 1..Len(historial) :
         historial[i].sub = commits[k].sub /\ historial[i].num = pad(commits[k].num)
    /\ commits[k].total = MontoDeSub(historial, commits[k].sub)

\* ------------------------------------------------------------------------
\* p012: concurrent POST /planillas of one worker
\* ------------------------------------------------------------------------
\* routes/auth.js, POST /login: the row of an active user is signed into a
\* token good for 12 hours and answered.  out is the token of the last
\* login and arg that of the login before it.
LoginP012(Es) ==
  \E e \in Es :
    /\ variant = "p012"
    /\ usuarios[e].ex /\ usuarios[e].activo
    /\ arg' = out
    /\ out' = usuarios[e]
    /\ UNCHANGED <<variant, planillas, detalle, usuarios, counters, historial, req, lock, commits, peek>>

\* requireAuth: jwt.verify makes the payload of the token req.user, the
\* usuarios table is not read.
RecvTokenP012(r, Inputs) ==
  /\ variant = "p012"
  /\ NextSlot(r)
  /\ \E tk \in {arg, out}, in \in Inputs :
       /\ tk # <<>>
       /\ req' = [req EXCEPT ![r] = ReqP012(tk, [in EXCEPT !.who = tk.email])]
  /\ UNCHANGED <<variant, arg, out, planillas, detalle, usuarios, counters, historial, lock, commits, peek>>

\* The admin corrects the first name of the worker of the seed.
Renombrado ==
  [email |-> Usuario, dni |-> DniUsuario, activo |-> TRUE, rol |-> "USUARIO",
   nombres |-> <<"J", "h", "o", "e", "l">>,
   apellidos |-> <<"G", "a", "r", "g", "a", "t", "e">>]

InputsDoble ==
  {Input("", "", "", F10, <<M20>>),
   Input("", "", "", F10, <<M30>>),
   Input("", "", "", F11, <<M25>>)}

LoginDoble == LoginP012({Usuario})

RecvDoble(r) == RecvTokenP012(r, InputsDoble)

PutUsuariosDoble == PutUsuariosP012({Renombrado})

InitDoble == variant = "p012" /\ InitDb(NReq)

NextDoble ==
  \/ LoginDoble
  \/ PutUsuariosDoble
  \/ \E r \in DOMAIN req :
       \/ RecvDoble(r)
       \/ NumP012(r)
       \/ CapP012(r)
       \/ CabP012(r)
       \/ DetP012(r)
       \/ CommitP012(r)
       \/ FailP012(r)

SpecDoble == InitDoble /\ [][NextDoble]_vars

\* No two stored headers of one worker carry the same num.
NumUnicoPorDni ==
  \A i, j \in 1..Len(planillas) :
    (planillas[i].dni = planillas[j].dni /\ planillas[i].num = planillas[j].num) => i = j

\* The committed totals of one worker on one fecha stay within TOPE.
TopePorDia ==
  \A i \in 1..Len(commits) : LedgerSum(commits, commits[i].dni, commits[i].fecha) <= TOPE

\* C30 (concurrent submissions of one worker): two concurrent POST
\* /planillas of the same worker never both commit with the same num, and
\* never both commit when their totals together with the accumulated amount
\* exceed TOPE.
NeverBothCommit == NumUnicoPorDni /\ TopePorDia

====
